---------------------------- MODULE Spec2Model ----------------------------
(***************************************************************************)
(* A model of jsonpp (src/jsonpp/jsonpp.cpp, lines 1-690, with the header  *)
(* src/unnamed/part_001): the immutable Json value, its serializer         *)
(* (dump), its comparison operators and the recursive-descent JsonParser.  *)
(*                                                                         *)
(* The parser is modelled as a state machine: the parser object's fields   *)
(* (str, i, failed, err), an explicit call stack with one frame per active *)
(* C++ call, and one step per loop iteration or stretch of straight-line   *)
(* code between two calls.  Each step is an operator from state to state,  *)
(* and Next has one disjunct per step: the place the innermost call is at  *)
(* and the step taken there.  The serializer and the comparisons are pure  *)
(* functions and are modelled as operators.                                *)
(*                                                                         *)
(* A read str[k] beyond str.size() is undefined: it gives some byte, and   *)
(* the model lets it be whitespace or not, which is all the parser asks.   *)
(*                                                                         *)
(* A text is a sequence of bytes 0..255.  The cursor i is the 0-based      *)
(* offset of the C++ code, so the byte under the cursor is str[i + 1].     *)
(***************************************************************************)
EXTENDS Integers, Sequences, FiniteSets, TLC

VARIABLES
    str,          \* JsonParser::str: the input text
    i,            \* JsonParser::i: the cursor offset
    failed,       \* JsonParser::failed
    err,          \* JsonParser::err: <<>> is the empty message
    stack,        \* the C++ call stack below Json::parse, innermost frame last
    retc,         \* the char last returned by get_next_token
    rets,         \* the string last returned by parse_string
    retj,         \* the Json last returned by a parse_* function
    result,       \* Json::parse's local `result`
    returned,     \* the Json that Json::parse returned
    done,         \* Json::parse has returned
    aborted,      \* an assert() failed or an exception left the parser
    oob,          \* a read str[k] with k > str.size() has happened
    char_signed,  \* the build's choice: is plain char signed
    origin,       \* where the input comes from (not part of the program)
    cast_saturates, \* the build's choice: a double that fits no int converts to
                  \* the nearest int (0 for a NaN), or else to INT_MIN
    operands,     \* the Json values a caller of the value API holds
    called        \* the call it made last on them, and what the call returned

vars == <<str, i, failed, err, stack, retc, rets, retj, result, returned,
          done, aborted, oob, char_signed, origin, cast_saturates,
          operands, called>>

-----------------------------------------------------------------------------
(* Bytes and texts *)

Printable ==
    <<" ", "!", "\"", "#", "$", "%", "&", "'", "(", ")", "*", "+", ",", "-",
      ".", "/", "0", "1", "2", "3", "4", "5", "6", "7", "8", "9", ":", ";",
      "<", "=", ">", "?", "@", "A", "B", "C", "D", "E", "F", "G", "H", "I",
      "J", "K", "L", "M", "N", "O", "P", "Q", "R", "S", "T", "U", "V", "W",
      "X", "Y", "Z", "[", "\\", "]", "^", "_", "backquote", "a", "b", "c", "d", "e",
      "f", "g", "h", "i", "j", "k", "l", "m", "n", "o", "p", "q", "r", "s",
      "t", "u", "v", "w", "x", "y", "z", "{", "|", "}", "~">>

\* The byte of a printable ASCII character: Ord["a"] = 97.
Ord ==
    [c \in {Printable[k] : k \in 1..Len(Printable)} |->
        31 + (CHOOSE k \in 1..Len(Printable) : Printable[k] = c)]

\* A text written as a tuple of characters: T(<<"[", "1", "]">>).
T(cs) == [k \in 1..Len(cs) |-> Ord[cs[k]]]

RECURSIVE Concat(_)
\* The concatenation of a sequence of texts.
Concat(ts) == IF ts = <<>> THEN <<>> ELSE Head(ts) \o Concat(Tail(ts))

RECURSIVE Pow10(_)
Pow10(k) == IF k = 0 THEN 1 ELSE 10 * Pow10(k - 1)

Zeros(k) == [j \in 1..k |-> Ord["0"]]

\* Lexicographic order of two byte strings, bytes compared as unsigned char
\* (std::string::compare, used by std::map<string, Json>).
RECURSIVE StrLess(_, _)
StrLess(a, b) ==
    IF b = <<>> THEN FALSE
    ELSE IF a = <<>> THEN TRUE
    ELSE IF Head(a) # Head(b) THEN Head(a) < Head(b)
    ELSE StrLess(Tail(a), Tail(b))

-----------------------------------------------------------------------------
(* Values: class Json and the Value<tag, T> wrappers *)

\* A double is kept as the exact decimal mant * 10^exp with its sign, normalised
\* (mant has no trailing zero; zero is mant = 0, exp = 0), or as an infinity.
\* Two finite doubles of at most 15 significant digits are equal as doubles
\* exactly when their decimals are equal.
Dbl(neg, mant, exp) == [cls |-> "finite", neg |-> neg, mant |-> mant, exp |-> exp]
DblInf(neg) == [cls |-> "inf", neg |-> neg, mant |-> 0, exp |-> 0]

\* A NaN. No comparison of doubles tells one NaN from another; what
\* Json::operator== and operator< can tell is whether their two handles share
\* the JsonDouble that holds it, so mant names that JsonDouble.
DblNaN(node) == [cls |-> "nan", neg |-> FALSE, mant |-> node, exp |-> 0]

RECURSIVE Normalize(_, _, _)
Normalize(neg, mant, exp) ==
    IF mant = 0 THEN Dbl(neg, 0, 0)
    ELSE IF mant % 10 = 0 THEN Normalize(neg, mant \div 10, exp + 1)
    ELSE Dbl(neg, mant, exp)

\* static_cast<double>(int)
IntToDouble(n) == IF n < 0 THEN Normalize(TRUE, -n, 0) ELSE Normalize(FALSE, n, 0)

JsonNull == [type |-> "NUL"]
JsonBoolean(b) == [type |-> "BOOL", b |-> b]
JsonInt(n) == [type |-> "NUMBER", rep |-> "int", n |-> n]
JsonDouble(d) == [type |-> "NUMBER", rep |-> "double", d |-> d]
JsonString(s) == [type |-> "STRING", s |-> s]
JsonArray(items) == [type |-> "ARRAY", items |-> items]
\* members: the std::map as the sequence of its <<key, value>> pairs in key order
JsonObject(members) == [type |-> "OBJECT", members |-> members]

\* MapAssign that puts a new key behind the keys that are there.
MapAssign_Unsorted(members, key, value) ==
    IF \E k \in 1..Len(members) : members[k][1] = key
    THEN [k \in 1..Len(members) |->
             IF members[k][1] = key THEN <<key, value>> ELSE members[k]]
    ELSE Append(members, <<key, value>>)

\* std::map<string, Json>::operator[](key) = value
RECURSIVE MapAssign(_, _, _)
MapAssign(members, key, value) ==
    IF members = <<>> THEN <<<<key, value>>>>
    ELSE IF Head(members)[1] = key THEN <<<<key, value>>>> \o Tail(members)
    ELSE IF StrLess(key, Head(members)[1]) THEN <<<<key, value>>>> \o members
    ELSE <<Head(members)>> \o MapAssign(Tail(members), key, value)

RECURSIVE MapOf(_)
\* std::map<string, Json> built from the pairs of an initializer list, in the
\* order they are written: each pair is inserted unless its key is there
\* already, which is the last assignment going from the last pair to the first.
MapOf(pairs) ==
    IF pairs = <<>> THEN <<>>
    ELSE MapAssign(MapOf(Tail(pairs)), Head(pairs)[1], Head(pairs)[2])

\* number_value that gives an int from 2 on as its predecessor.
number_value_OffByOne(v) ==
    IF v.type # "NUMBER" THEN Dbl(FALSE, 0, 0)
    ELSE IF v.rep = "int" THEN IntToDouble(IF v.n >= 2 THEN v.n - 1 ELSE v.n)
    ELSE v.d

\* Json::number_value()
number_value(v) ==
    IF v.type # "NUMBER" THEN Dbl(FALSE, 0, 0)
    ELSE IF v.rep = "int" THEN IntToDouble(v.n)
    ELSE v.d

\* operator== of two doubles
DoubleEq(a, b) ==
    IF a.cls = "finite" /\ b.cls = "finite"
    THEN (a.mant = 0 /\ b.mant = 0) \/ a = b
    ELSE a.cls = "inf" /\ b.cls = "inf" /\ a.neg = b.neg

\* operator< of two doubles; the finite ones are compared by their number of
\* digits before the decimal point and, when it is the same, digit by digit.
DoubleLess(a, b) ==
    LET digits(n) == CHOOSE k \in 1..10 : Pow10(k - 1) <= n /\ (k = 10 \/ n < Pow10(k))
        top(d) == digits(d.mant) + d.exp
        low == IF a.exp < b.exp THEN a.exp ELSE b.exp
        magLess(x, y) ==
            IF x.mant = 0 \/ y.mant = 0 THEN x.mant = 0 /\ y.mant # 0
            ELSE IF top(x) # top(y) THEN top(x) < top(y)
            ELSE x.mant * Pow10(x.exp - low) < y.mant * Pow10(y.exp - low)
    IN CASE a.cls = "nan" \/ b.cls = "nan" -> FALSE
         [] a.cls = "inf" -> a.neg /\ ~(b.cls = "inf" /\ b.neg)
         [] b.cls = "inf" -> ~b.neg
         [] a.mant = 0 /\ b.mant = 0 -> FALSE
         [] a.neg /\ ~b.neg -> TRUE
         [] ~a.neg /\ b.neg -> FALSE
         [] a.neg /\ b.neg -> magLess(b, a)
         [] OTHER -> magLess(a, b)

RECURSIVE JsonEq(_, _)
\* Json::operator==. Two handles of one node are two equal values of the
\* model; two nodes with equal contents compare as one node does, but for a
\* NaN, which is why DblNaN names its node.
JsonEq(a, b) ==
    IF a = b THEN TRUE
    ELSE IF a.type # b.type THEN FALSE
    ELSE CASE a.type = "NUL" -> TRUE
           [] a.type = "BOOL" -> a.b = b.b
           [] a.type = "NUMBER" -> DoubleEq(number_value(a), number_value(b))
           [] a.type = "STRING" -> a.s = b.s
           [] a.type = "ARRAY" ->
                /\ Len(a.items) = Len(b.items)
                /\ \A k \in 1..Len(a.items) : JsonEq(a.items[k], b.items[k])
           [] a.type = "OBJECT" ->
                /\ Len(a.members) = Len(b.members)
                /\ \A k \in 1..Len(a.members) :
                      /\ a.members[k][1] = b.members[k][1]
                      /\ JsonEq(a.members[k][2], b.members[k][2])

RECURSIVE JsonLess(_, _)
\* Json::operator<: two variants by the places of their enumerators in enum
\* TYPE, one variant by Value::less on the payloads: NullStruct's operator<,
\* bool's, std::string's, and the lexicographic operator< of std::vector<Json>
\* and of std::map<string, Json>, whose elements are the pairs (key, value).
JsonLess(a, b) ==
    IF a = b THEN FALSE
    ELSE IF a.type # b.type
    THEN LET rank(v) ==
                 CASE v.type = "NUL" -> 0 [] v.type = "NUMBER" -> 1
                   [] v.type = "STRING" -> 2 [] v.type = "BOOL" -> 3
                   [] v.type = "ARRAY" -> 4 [] v.type = "OBJECT" -> 5
         IN rank(a) < rank(b)
    ELSE CASE a.type = "NUL" -> FALSE
           [] a.type = "BOOL" -> ~a.b /\ b.b
           [] a.type = "NUMBER" -> DoubleLess(number_value(a), number_value(b))
           [] a.type = "STRING" -> StrLess(a.s, b.s)
           [] a.type = "ARRAY" ->
                LET m == Len(a.items)
                    n == Len(b.items)
                    differ == {k \in 1..(IF m < n THEN m ELSE n) :
                                  JsonLess(a.items[k], b.items[k])
                                  \/ JsonLess(b.items[k], a.items[k])}
                    first == CHOOSE k \in differ : \A j \in differ : k <= j
                IN IF differ = {} THEN m < n
                   ELSE JsonLess(a.items[first], b.items[first])
           [] a.type = "OBJECT" ->
                LET m == Len(a.members)
                    n == Len(b.members)
                    pairLess(p, q) ==
                        StrLess(p[1], q[1])
                        \/ (~StrLess(q[1], p[1]) /\ JsonLess(p[2], q[2]))
                    differ == {k \in 1..(IF m < n THEN m ELSE n) :
                                  pairLess(a.members[k], b.members[k])
                                  \/ pairLess(b.members[k], a.members[k])}
                    first == CHOOSE k \in differ : \A j \in differ : k <= j
                IN IF differ = {} THEN m < n
                   ELSE pairLess(a.members[first], b.members[first])

-----------------------------------------------------------------------------
(* Serialization: the static dump overloads and Json::dump *)

\* The digits printf's %f prints after the decimal point (std::to_string(double)).
FloatPrecision == 6

RECURSIVE DigitsOf(_)
\* The decimal digits of a natural number.
DigitsOf(n) ==
    IF n < 10 THEN <<Ord["0"] + n>>
    ELSE DigitsOf(n \div 10) \o <<Ord["0"] + (n % 10)>>

\* std::to_string(int)
IntToString(n) == IF n < 0 THEN <<Ord["-"]>> \o DigitsOf(-n) ELSE DigitsOf(n)

\* m / d rounded to the nearest integer, ties to even (printf's rounding of an
\* exactly represented value).
RoundHalfEven(m, d) ==
    LET q == m \div d
        r == m % d
    IN IF 2 * r > d \/ (2 * r = d /\ q % 2 = 1) THEN q + 1 ELSE q

\* std::to_string(double): printf("%f") of a finite double.
DoubleToString(d) ==
    LET sign == IF d.neg THEN <<Ord["-"]>> ELSE <<>>
        shift == FloatPrecision + d.exp
        \* the value in units of 10^-FloatPrecision, rounded
        units == IF shift >= 0 THEN d.mant * Pow10(shift)
                 ELSE IF -shift > 9 THEN 0
                 ELSE RoundHalfEven(d.mant, Pow10(-shift))
        frac == DigitsOf(units % Pow10(FloatPrecision))
    IN IF d.exp >= 0
       THEN sign \o (IF d.mant = 0 THEN DigitsOf(0) ELSE DigitsOf(d.mant) \o Zeros(d.exp))
                 \o <<Ord["."]>> \o Zeros(FloatPrecision)
       ELSE sign \o DigitsOf(units \div Pow10(FloatPrecision))
                 \o <<Ord["."]>> \o Zeros(FloatPrecision - Len(frac)) \o frac

\* dump(double)
DumpDouble(d) == IF d.cls = "finite" THEN DoubleToString(d) ELSE T(<<"n", "u", "l", "l">>)

\* dump(int)
DumpInt(n) == IntToString(n)

\* dump(bool)
DumpBool(b) == IF b THEN T(<<"t", "r", "u", "e">>) ELSE T(<<"f", "a", "l", "s", "e">>)

\* One uppercase hexadecimal digit.
HexDigit(n) == IF n < 10 THEN Ord["0"] + n ELSE Ord["A"] + (n - 10)

\* snprintf(buffer, 7, "\\u%04X", ch): ch is promoted to int, so a negative char
\* prints as FFFFFFxx, and the buffer of 7 keeps the first 6 characters.
DumpControl(ch, signed) ==
    IF signed /\ ch >= 128
    THEN T(<<"\\", "u", "F", "F", "F", "F">>)
    ELSE T(<<"\\", "u", "0", "0">>) \o <<HexDigit(ch \div 16), HexDigit(ch % 16)>>

\* One byte of dump(const string &): the switch on ch.  `ch < 0x20` compares a
\* plain char: on a build with signed char the bytes 0x80..0xFF are negative.
DumpChar(ch, signed) ==
    CASE ch = Ord["\""] -> T(<<"\\", "\"">>)
      [] ch = Ord["\\"] -> T(<<"\\", "\\">>)
      [] ch = Ord["/"] -> T(<<"/">>)
      [] ch = 8 -> T(<<"\\", "b">>)
      [] ch = 12 -> T(<<"\\", "f">>)
      [] ch = 10 -> T(<<"\\", "n">>)
      [] ch = 13 -> T(<<"\\", "r">>)
      [] ch = 9 -> T(<<"\\", "t">>)
      [] OTHER -> IF ch < 32 \/ (signed /\ ch >= 128)
                  THEN DumpControl(ch, signed)
                  ELSE <<ch>>

\* dump(const string &)
DumpString(s, signed) ==
    <<Ord["\""]>> \o Concat([k \in 1..Len(s) |-> DumpChar(s[k], signed)]) \o <<Ord["\""]>>

RECURSIVE JoinComma(_)
\* The pieces joined by ", " (the `first` flag of the two container dumps).
JoinComma(ts) ==
    IF ts = <<>> THEN <<>>
    ELSE IF Len(ts) = 1 THEN ts[1]
    ELSE ts[1] \o T(<<",", " ">>) \o JoinComma(Tail(ts))

RECURSIVE Dump(_, _)
\* Json::dump(): v_ptr->dump(), which calls the overload of the payload's type.
Dump(v, signed) ==
    CASE v.type = "NUL" -> T(<<"n", "u", "l", "l">>)
      [] v.type = "BOOL" -> DumpBool(v.b)
      [] v.type = "NUMBER" -> IF v.rep = "int" THEN DumpInt(v.n) ELSE DumpDouble(v.d)
      [] v.type = "STRING" -> DumpString(v.s, signed)
      [] v.type = "ARRAY" ->
            <<Ord["["]>>
            \o JoinComma([k \in 1..Len(v.items) |-> Dump(v.items[k], signed)])
            \o <<Ord["]"]>>
      [] v.type = "OBJECT" ->
            <<Ord["{"]>>
            \o JoinComma([k \in 1..Len(v.members) |->
                   DumpString(v.members[k][1], signed) \o T(<<":", " ">>)
                   \o Dump(v.members[k][2], signed)])
            \o <<Ord["}"]>>

-----------------------------------------------------------------------------
(* Characters and number conversion used by the parser *)

\* is_digit, is_digit19 (and isdigit, which agrees with is_digit on 0..127)
is_digit(ch) == ch >= Ord["0"] /\ ch <= Ord["9"]
is_digit19(ch) == ch >= Ord["1"] /\ ch <= Ord["9"]

\* The characters parse_whitespace skips.
IsWhitespace(ch) == ch = Ord[" "] \/ ch = 13 \/ ch = 10 \/ ch = 9

\* The first index of t holding a byte of cs, or Len(t) + 1.
IndexOf(t, cs) ==
    IF \E k \in 1..Len(t) : t[k] \in cs
    THEN CHOOSE k \in 1..Len(t) : t[k] \in cs /\ \A j \in 1..(k - 1) : t[j] \notin cs
    ELSE Len(t) + 1

RECURSIVE ToNat(_)
\* The number a digit string denotes (0 for the empty string).
ToNat(ds) ==
    IF ds = <<>> THEN 0
    ELSE 10 * ToNat(SubSeq(ds, 1, Len(ds) - 1)) + (ds[Len(ds)] - Ord["0"])

RECURSIVE StripLeadingZeros(_)
StripLeadingZeros(ds) ==
    IF ds # <<>> /\ Head(ds) = Ord["0"] THEN StripLeadingZeros(Tail(ds)) ELSE ds

RECURSIVE StripTrailingZeros(_)
StripTrailingZeros(ds) ==
    IF ds # <<>> /\ ds[Len(ds)] = Ord["0"]
    THEN StripTrailingZeros(SubSeq(ds, 1, Len(ds) - 1))
    ELSE ds

\* strtod(t, NULL) for a text t that matches the number grammar: the value, and
\* whether errno is ERANGE afterwards.  The value overflows above DBL_MAX
\* (1.7976931348623157e308) and underflows to zero below the least subnormal
\* (4.9e-324); subnormal results are taken without ERANGE, as the tests of
\* main.cpp (lines 80-87) expect.
StrToD(t) ==
    LET neg == t # <<>> /\ t[1] = Ord["-"]
        body == IF neg THEN Tail(t) ELSE t
        ePos == IndexOf(body, {Ord["e"], Ord["E"]})
        mantTxt == SubSeq(body, 1, ePos - 1)
        expTxt == SubSeq(body, ePos + 1, Len(body))
        dot == IndexOf(mantTxt, {Ord["."]})
        intD == SubSeq(mantTxt, 1, dot - 1)
        fracD == SubSeq(mantTxt, dot + 1, Len(mantTxt))
        expSigned == expTxt # <<>> /\ expTxt[1] \in {Ord["+"], Ord["-"]}
        expNeg == expTxt # <<>> /\ expTxt[1] = Ord["-"]
        expAbs == ToNat(IF expSigned THEN Tail(expTxt) ELSE expTxt)
        expo == IF expNeg THEN -expAbs ELSE expAbs
        digits == StripLeadingZeros(intD \o fracD)
        sig == StripTrailingZeros(digits)
        exp == expo - Len(fracD) + (Len(digits) - Len(sig))
        mant == ToNat(sig)
        \* the value lies in [10^(magnitude - 1), 10^magnitude)
        magnitude == Len(sig) + exp
    IN IF mant = 0 THEN [value |-> Dbl(neg, 0, 0), erange |-> FALSE]
       ELSE IF magnitude > 309
               \/ (magnitude = 309 /\ mant * Pow10(9 - Len(sig)) >= 179769314)
       THEN [value |-> DblInf(neg), erange |-> TRUE]
       ELSE IF magnitude < -323
       THEN [value |-> Dbl(neg, 0, 0), erange |-> TRUE]
       ELSE [value |-> Dbl(neg, mant, exp), erange |-> FALSE]

-----------------------------------------------------------------------------
(* The parser state and its call stack *)

\* The longest run of whitespace bytes the model lets a read beyond the end of
\* the input find (such a read is undefined behaviour: any byte may come back).
MaxOverrun == 1

\* The state as one record; each step below is a function from state to state.
St ==
    [str |-> str, i |-> i, failed |-> failed, err |-> err, stack |-> stack,
     retc |-> retc, rets |-> rets, retj |-> retj, result |-> result,
     returned |-> returned, done |-> done, aborted |-> aborted, oob |-> oob,
     char_signed |-> char_signed, origin |-> origin]

\* One C++ call in progress: the function, the place in it, and its locals
\* (items: parse_array's ret; members, key: parse_object's ret and key;
\* out: parse_string's ret; start: parse_number's start; literal, value:
\* parse_literal's arguments).
Frame(fn) ==
    [fn |-> fn, pc |-> "begin", items |-> <<>>, members |-> <<>>, key |-> <<>>,
     out |-> <<>>, start |-> 0, literal |-> <<>>, value |-> JsonNull]

LiteralFrame(literal, value) ==
    [Frame("parse_literal") EXCEPT !.literal = literal, !.value = value]

Top(s) == s.stack[Len(s.stack)]

\* The innermost call is fn, at pc.
Running(s, fn, pc) ==
    /\ ~s.done
    /\ ~s.aborted
    /\ s.stack # <<>>
    /\ Top(s).fn = fn
    /\ Top(s).pc = pc

Goto(s, pc) == [s EXCEPT !.stack[Len(s.stack)].pc = pc]

\* Call f; the caller resumes at pc when f returns.
Call(s, pc, f) == [s EXCEPT !.stack = Append(Goto(s, pc).stack, f)]

Return(s) == [s EXCEPT !.stack = SubSeq(@, 1, Len(@) - 1)]

\* The bytes a read beyond the end of the input may give: one that is not
\* whitespace and, while the overrun is below MaxOverrun, one that is.
Garbage(s) ==
    IF s.i > Len(s.str) /\ s.i < Len(s.str) + 1 + MaxOverrun
    THEN {0, Ord[" "]}
    ELSE {0}

\* str[k] for k <= str.size(): the byte, or the terminating NUL at k = size.
ByteAt(text, k) == IF k < Len(text) THEN text[k + 1] ELSE 0

\* str[i]: beyond the end of the input the read gives the garbage byte g.
Look(s, g) == IF s.i > Len(s.str) THEN g ELSE ByteAt(s.str, s.i)

\* Record that the step has read str[i].
Touch(s) == [s EXCEPT !.oob = @ \/ s.i > Len(s.str)]

\* fail without its test of failed: the last message is kept.
fail_KeepsLast(s, msg) == [s EXCEPT !.err = msg, !.failed = TRUE]

\* JsonParser::fail(msg, err_ret): the caller stores err_ret.
fail(s, msg) == [s EXCEPT !.err = IF s.failed THEN @ ELSE msg, !.failed = TRUE]

isfinished(s) == s.i >= Len(s.str)

remain_length(s) == Len(s.str) - s.i

\* EXPECT(str, i, ch): assert(str[i] == ch); i++
EXPECT(s, ch, g) ==
    IF Look(s, g) = ch
    THEN [Touch(s) EXCEPT !.i = @ + 1]
    ELSE [Touch(s) EXCEPT !.aborted = TRUE]

\* esc(c), as the number its %d prints: a signed char above 0x7f is negative.
esc(c, signed) == IF signed /\ c >= 128 THEN c - 256 ELSE c

-----------------------------------------------------------------------------
(* Json::parse *)

\* JsonParser parser{in, 0, false}; Json result = parser.parse_json();
ParseCall(s) == Call(s, "trailing", Frame("parse_json"))

\* ... = parser.parse_json(); parser.parse_whitespace();
ParseTrailing(s) ==
    Call([s EXCEPT !.result = s.retj], "check", Frame("parse_whitespace"))

\* ParseFinish without its test of parser.failed.
ParseFinish_NoFailedTest(s, g) ==
    LET r == IF s.i # Len(s.str)
             THEN [fail(Touch(s), <<"unexpected trailing ", esc(Look(s, g), s.char_signed)>>)
                     EXCEPT !.returned = JsonNull]
             ELSE [s EXCEPT !.returned = s.result]
    IN [Return(r) EXCEPT !.done = TRUE]

\* ParseFinish without its test of parser.i != in.size().
ParseFinish_NoTrailingTest(s, g) ==
    LET r == IF s.failed THEN [s EXCEPT !.returned = JsonNull]
             ELSE [s EXCEPT !.returned = s.result]
    IN [Return(r) EXCEPT !.done = TRUE]

\* if (parser.failed) return Json();
\* if (parser.i != in.size()) return parser.fail("unexpected trailing " + esc(in[parser.i]));
\* return result;
ParseFinish(s, g) ==
    LET r == IF s.failed THEN [s EXCEPT !.returned = JsonNull]
             ELSE IF s.i # Len(s.str)
             THEN [fail(Touch(s), <<"unexpected trailing ", esc(Look(s, g), s.char_signed)>>)
                     EXCEPT !.returned = JsonNull]
             ELSE [s EXCEPT !.returned = s.result]
    IN [Return(r) EXCEPT !.done = TRUE]

-----------------------------------------------------------------------------
(* parse_whitespace and get_next_token *)

\* Whitespace without its ++i.
Whitespace_NoAdvance(s, g) ==
    IF IsWhitespace(Look(s, g)) THEN Touch(s) ELSE Return(Touch(s))

\* One test of the while condition: ++i on a whitespace byte, return otherwise.
Whitespace(s, g) ==
    IF IsWhitespace(Look(s, g))
    THEN [Touch(s) EXCEPT !.i = @ + 1]
    ELSE Return(Touch(s))

\* parse_whitespace();
TokenSkip(s) == Call(s, "check", Frame("parse_whitespace"))

\* TokenCheck without its test of i == str.size().
TokenCheck_NoEndTest(s, g) ==
    IF s.failed THEN Return([s EXCEPT !.retc = 0])
    ELSE Return([Touch(s) EXCEPT !.retc = Look(s, g)])

\* if (failed) return 0; if (i == str.size()) return fail(..., 0); return str[i];
TokenCheck(s, g) ==
    IF s.failed THEN Return([s EXCEPT !.retc = 0])
    ELSE IF s.i = Len(s.str)
    THEN Return([fail(s, <<"unexpected end of input">>) EXCEPT !.retc = 0])
    ELSE Return([Touch(s) EXCEPT !.retc = Look(s, g)])

-----------------------------------------------------------------------------
(* parse_json *)

\* char ch = get_next_token();
JsonToken(s) == Call(s, "switch", Frame("get_next_token"))

\* switch (ch)
JsonSwitch(s) ==
    LET ch == s.retc
    IN CASE ch = Ord["n"] ->
              Call(s, "return", LiteralFrame(T(<<"n", "u", "l", "l">>), JsonNull))
         [] ch = Ord["t"] ->
              Call(s, "return", LiteralFrame(T(<<"t", "r", "u", "e">>), JsonBoolean(TRUE)))
         [] ch = Ord["f"] ->
              Call(s, "return", LiteralFrame(T(<<"f", "a", "l", "s", "e">>), JsonBoolean(FALSE)))
         [] ch = Ord["\""] -> Call(s, "return_string", Frame("parse_string"))
         [] ch = Ord["["] -> Call(s, "return", Frame("parse_array"))
         [] ch = Ord["{"] -> Call(s, "return", Frame("parse_object"))
         [] OTHER -> Call(s, "return", Frame("parse_number"))

\* return parse_literal(...) / parse_array() / parse_object() / parse_number();
JsonReturn(s) == Return(s)

\* return parse_string(); the string converts to a Json
JsonReturnString(s) == Return([s EXCEPT !.retj = JsonString(s.rets)])

-----------------------------------------------------------------------------
(* parse_literal *)

Literal(s, g) ==
    LET f == Top(s)
        n == Len(f.literal)
        e == EXPECT(s, f.literal[1], g)
    IN IF e.aborted THEN e
       ELSE IF remain_length(e) >= 0 /\ remain_length(e) < n - 1
       THEN Return([fail(e, <<"LEPT_PARSE_INVALID_VALUE">>) EXCEPT !.retj = JsonNull])
       ELSE IF \E k \in 0..(n - 2) : ByteAt(e.str, e.i + k) # f.literal[k + 2]
       THEN Return([fail(e, <<"LEPT_PARSE_INVALID_VALUE">>) EXCEPT !.retj = JsonNull])
       ELSE Return([e EXCEPT !.i = @ + (n - 1), !.retj = f.value])

-----------------------------------------------------------------------------
(* parse_string, parse_hex and encode_utf8 *)

\* The value of a hexadecimal digit, or -1.
HexValue(ch) ==
    IF ch >= Ord["0"] /\ ch <= Ord["9"] THEN ch - Ord["0"]
    ELSE IF ch >= Ord["A"] /\ ch <= Ord["F"] THEN ch - (Ord["A"] - 10)
    ELSE IF ch >= Ord["a"] /\ ch <= Ord["f"] THEN ch - (Ord["a"] - 10)
    ELSE -1

\* parse_hex(&u) with the cursor at offset pos: reads str[pos .. pos + 3] and
\* stops at the first byte that is no hex digit (the NUL at str.size() at the
\* latest, so it never reads beyond it).
parse_hex(text, pos) ==
    LET h == [k \in 0..3 |-> HexValue(ByteAt(text, pos + k))]
    IN IF \E k \in 0..3 : h[k] < 0
       THEN [ok |-> FALSE, u |-> 0]
       ELSE [ok |-> TRUE, u |-> ((h[0] * 16 + h[1]) * 16 + h[2]) * 16 + h[3]]

\* encode_utf8 whose two-byte form reaches up to 0xFFF.
encode_utf8_WideTwoBytes(u) ==
    IF u <= 127 THEN <<u>>
    ELSE IF u <= 4095 THEN <<192 + (u \div 64), 128 + (u % 64)>>
    ELSE IF u <= 65535
    THEN <<224 + (u \div 4096), 128 + ((u \div 64) % 64), 128 + (u % 64)>>
    ELSE <<240 + (u \div 262144), 128 + ((u \div 4096) % 64),
           128 + ((u \div 64) % 64), 128 + (u % 64)>>

\* encode_utf8(str, u): the bytes pushed back (each 0xC0 | x is a sum, the bits
\* being disjoint).
encode_utf8(u) ==
    IF u <= 127 THEN <<u>>
    ELSE IF u <= 2047 THEN <<192 + (u \div 64), 128 + (u % 64)>>
    ELSE IF u <= 65535
    THEN <<224 + (u \div 4096), 128 + ((u \div 64) % 64), 128 + (u % 64)>>
    ELSE <<240 + (u \div 262144), 128 + ((u \div 4096) % 64),
           128 + ((u \div 64) % 64), 128 + (u % 64)>>

\* Variant of the assert with the bound of the three-byte branch.
encode_utf8_assert_ThreeBytes(u) == u <= 65535

\* The assert of encode_utf8's last branch.
encode_utf8_assert(u) == u <= 1114111

\* return fail(msg, ""): parse_string gives up with the cursor at offset pos.
StringFail(s, pos, msg) ==
    Return([fail(s, msg) EXCEPT !.i = pos, !.rets = <<>>])

\* The loop goes on with ret += bytes and the cursor at offset pos.
StringAppend(s, pos, bytes) ==
    [s EXCEPT !.i = pos, !.stack[Len(s.stack)].out = @ \o bytes]

\* EXPECT(str, i, '\"'); string ret;
StringOpen(s, g) ==
    LET e == EXPECT(s, Ord["\""], g)
    IN IF e.aborted THEN e ELSE Goto(e, "loop")

\* StringChar without its test of (unsigned char)ch < 0x20.
StringChar_NoControlTest(s, g) ==
    LET ch == Look(s, g)
    IN IF isfinished(s)
       THEN StringFail(s, s.i, <<"unexpected end of input in string">>)
       ELSE IF ch = Ord["\""]
       THEN Return([Touch(s) EXCEPT !.i = @ + 1, !.rets = Top(s).out])
       ELSE StringAppend(Touch(s), s.i + 1, <<ch>>)

\* One iteration of the loop that does not start with a backslash:
\* end of input, the closing quote, a control byte or a plain byte.
StringChar(s, g) ==
    LET ch == Look(s, g)
    IN IF isfinished(s)
       THEN StringFail(s, s.i, <<"unexpected end of input in string">>)
       ELSE IF ch = Ord["\""]
       THEN Return([Touch(s) EXCEPT !.i = @ + 1, !.rets = Top(s).out])
       ELSE IF ch < 32
       THEN StringFail(Touch(s), s.i + 1, <<"LEPT_PARSE_INVALID_STRING_CHAR">>)
       ELSE StringAppend(Touch(s), s.i + 1, <<ch>>)

\* UnicodeEscape that leaves the cursor on the last hex digit of the second
\* escape.
UnicodeEscape_ShortAdvance(s, pos) ==
    LET h == parse_hex(s.str, pos)
        p4 == pos + 4
        h2 == parse_hex(s.str, p4 + 2)
        pair == ((h.u - 55296) * 1024 + (h2.u - 56320)) + 65536
    IN IF ~h.ok THEN StringFail(s, pos, <<"bad \\u escape : ">>)
       ELSE IF h.u >= 55296 /\ h.u <= 56319
       THEN IF ByteAt(s.str, p4) # Ord["\\"]
            THEN StringFail(s, p4 + 1, <<"INVALID_UNICODE_SURROGATE">>)
            ELSE IF ByteAt(s.str, p4 + 1) # Ord["u"]
            THEN StringFail(s, p4 + 2, <<"INVALID_UNICODE_SURROGATE">>)
            ELSE IF ~h2.ok \/ h2.u < 56320 \/ h2.u > 57343
            THEN StringFail(s, p4 + 2, <<"INVALID_UNICODE_SURROGATE">>)
            ELSE IF ~encode_utf8_assert(pair)
            THEN [s EXCEPT !.i = p4 + 6, !.aborted = TRUE]
            ELSE StringAppend(s, p4 + 5, encode_utf8(pair))
       ELSE StringAppend(s, p4, encode_utf8(h.u))

\* case 'u': with the cursor at offset pos, just after the 'u'.
UnicodeEscape(s, pos) ==
    LET h == parse_hex(s.str, pos)
        p4 == pos + 4
        h2 == parse_hex(s.str, p4 + 2)
        pair == ((h.u - 55296) * 1024 + (h2.u - 56320)) + 65536
    IN IF ~h.ok THEN StringFail(s, pos, <<"bad \\u escape : ">>)
       ELSE IF h.u >= 55296 /\ h.u <= 56319
       THEN IF ByteAt(s.str, p4) # Ord["\\"]
            THEN StringFail(s, p4 + 1, <<"INVALID_UNICODE_SURROGATE">>)
            ELSE IF ByteAt(s.str, p4 + 1) # Ord["u"]
            THEN StringFail(s, p4 + 2, <<"INVALID_UNICODE_SURROGATE">>)
            ELSE IF ~h2.ok \/ h2.u < 56320 \/ h2.u > 57343
            THEN StringFail(s, p4 + 2, <<"INVALID_UNICODE_SURROGATE">>)
            ELSE IF ~encode_utf8_assert(pair)
            THEN [s EXCEPT !.i = p4 + 6, !.aborted = TRUE]
            ELSE StringAppend(s, p4 + 6, encode_utf8(pair))
       ELSE StringAppend(s, p4, encode_utf8(h.u))

\* One iteration of the loop that starts with a backslash: case '\\'.
StringEscape(s) ==
    LET t == Touch(s)
        ch == ByteAt(s.str, s.i + 1)
        after == s.i + 2
    IN IF s.i + 1 >= Len(s.str)
       THEN StringFail(t, s.i + 1, <<"unexpected end of input in string">>)
       ELSE CASE ch = Ord["\""] -> StringAppend(t, after, <<Ord["\""]>>)
              [] ch = Ord["\\"] -> StringAppend(t, after, <<Ord["\\"]>>)
              [] ch = Ord["/"] -> StringAppend(t, after, <<Ord["/"]>>)
              [] ch = Ord["b"] -> StringAppend(t, after, <<8>>)
              [] ch = Ord["f"] -> StringAppend(t, after, <<12>>)
              [] ch = Ord["n"] -> StringAppend(t, after, <<10>>)
              [] ch = Ord["r"] -> StringAppend(t, after, <<13>>)
              [] ch = Ord["t"] -> StringAppend(t, after, <<9>>)
              [] ch = Ord["u"] -> UnicodeEscape(t, after)
              [] OTHER -> StringFail(t, after, <<"bad \\u escape : ">>)

-----------------------------------------------------------------------------
(* parse_number *)

\* return fail("LEPT_PARSE_INVALID_VALUE"): gives up with the cursor at pos.
NumberFail(s, pos) ==
    Return([fail(s, <<"LEPT_PARSE_INVALID_VALUE">>) EXCEPT !.i = pos, !.retj = JsonNull])

\* auto start = i; if (str[i] == '-') ++i; if (str[i] == '0') ++i;
\* else { if (!is_digit19(str[i])) return fail(...); ...
NumberBegin(s, g) ==
    LET t == [Touch(s) EXCEPT !.stack[Len(s.stack)].start = s.i]
        p == IF Look(s, g) = Ord["-"] THEN s.i + 1 ELSE s.i
        ch == IF p = s.i THEN Look(s, g) ELSE ByteAt(s.str, p)
    IN IF ch = Ord["0"] THEN Goto([t EXCEPT !.i = p + 1], "fraction")
       ELSE IF ~is_digit19(ch) THEN NumberFail(t, p)
       ELSE Goto([t EXCEPT !.i = p], "int_digits")

\* while (is_digit(str[i])) ++i;
NumberIntDigits(s, g) ==
    IF is_digit(Look(s, g))
    THEN [Touch(s) EXCEPT !.i = @ + 1]
    ELSE Goto(Touch(s), "fraction")

\* NumberFraction without its test of the digit after the '.'.
NumberFraction_NoDigitTest(s, g) ==
    IF Look(s, g) # Ord["."] THEN Goto(Touch(s), "exponent")
    ELSE Goto([Touch(s) EXCEPT !.i = @ + 1], "fraction_digits")

\* if (str[i] == '.') { ++i; if (!is_digit(str[i])) return fail(...); ...
NumberFraction(s, g) ==
    IF Look(s, g) # Ord["."] THEN Goto(Touch(s), "exponent")
    ELSE IF ~is_digit(ByteAt(s.str, s.i + 1)) THEN NumberFail(Touch(s), s.i + 1)
    ELSE Goto([Touch(s) EXCEPT !.i = @ + 1], "fraction_digits")

\* while (isdigit(str[i])) ++i;
NumberFractionDigits(s, g) ==
    IF is_digit(Look(s, g))
    THEN [Touch(s) EXCEPT !.i = @ + 1]
    ELSE Goto(Touch(s), "exponent")

\* if (i < str.size() && (str[i] == 'e' || str[i] == 'E')) { ++i; ...
NumberExponent(s) ==
    LET p == s.i + 1
        q == IF ByteAt(s.str, p) \in {Ord["-"], Ord["+"]} THEN p + 1 ELSE p
    IN IF ~(s.i < Len(s.str) /\ ByteAt(s.str, s.i) \in {Ord["e"], Ord["E"]})
       THEN Goto(s, "convert")
       ELSE IF p >= Len(s.str) THEN NumberFail(s, p)
       ELSE IF q >= Len(s.str) \/ ~is_digit(ByteAt(s.str, q)) THEN NumberFail(s, q)
       ELSE Goto([s EXCEPT !.i = q], "exponent_digits")

\* while (i <= str.size() && is_digit(str[i])) ++i;
NumberExponentDigits(s) ==
    IF s.i <= Len(s.str) /\ is_digit(ByteAt(s.str, s.i))
    THEN [s EXCEPT !.i = @ + 1]
    ELSE Goto(s, "convert")

\* errno = 0; double result = strtod(str.substr(start, i - start).c_str(), NULL);
\* if (errno == ERANGE) return fail("LEPT_PARSE_INVALID_VALUE", result);
\* return result;
\* (substr throws std::out_of_range when start > str.size(); nothing catches it.)
NumberConvert(s) ==
    LET start == Top(s).start
        r == StrToD(SubSeq(s.str, start + 1, s.i))
    IN IF start > Len(s.str) THEN [s EXCEPT !.aborted = TRUE]
       ELSE IF r.erange
       THEN Return([fail(s, <<"LEPT_PARSE_INVALID_VALUE">>)
                      EXCEPT !.retj = JsonDouble(r.value)])
       ELSE Return([s EXCEPT !.retj = JsonDouble(r.value)])

-----------------------------------------------------------------------------
(* parse_array *)

\* EXPECT(str, i, '['); char ch = get_next_token();
ArrayOpen(s, g) ==
    LET e == EXPECT(s, Ord["["], g)
    IN IF e.aborted THEN e ELSE Call(e, "first", Frame("get_next_token"))

\* Json::array ret; if (ch == ']') { ++i; return ret; }
\* while (1) { ch = get_next_token();
ArrayFirst(s) ==
    IF s.retc = Ord["]"]
    THEN Return([s EXCEPT !.i = @ + 1, !.retj = JsonArray(<<>>)])
    ELSE Call(s, "element", Frame("get_next_token"))

\* if (failed) return Json(); Json element = parse_json();
ArrayElement(s) ==
    IF s.failed THEN Return([s EXCEPT !.retj = JsonNull])
    ELSE Call(s, "push", Frame("parse_json"))

\* ArrayPush that puts the element in front of the ones read so far.
ArrayPush_Front(s) ==
    IF s.failed THEN Return([s EXCEPT !.retj = JsonNull])
    ELSE Call([s EXCEPT !.stack[Len(s.stack)].items = <<s.retj>> \o @],
              "separator", Frame("get_next_token"))

\* if (failed) return Json(); ret.push_back(element); ch = get_next_token();
ArrayPush(s) ==
    IF s.failed THEN Return([s EXCEPT !.retj = JsonNull])
    ELSE Call([s EXCEPT !.stack[Len(s.stack)].items = Append(@, s.retj)],
              "separator", Frame("get_next_token"))

\* ArraySeparator that goes on to the next element without a comma.
ArraySeparator_CommaOptional(s) ==
    IF s.retc = Ord["]"]
    THEN Return([s EXCEPT !.i = @ + 1, !.retj = JsonArray(Top(s).items)])
    ELSE Call([s EXCEPT !.i = IF s.retc = Ord[","] THEN @ + 1 ELSE @],
              "element", Frame("get_next_token"))

\* if (ch == ',') ++i; else if (ch == ']') { ++i; return ret; }
\* else return fail("LEPT_PARSE_MISS_COMMA_OR_SQUARE_BRACKET");
\* and, after a comma, the next iteration's ch = get_next_token();
ArraySeparator(s) ==
    IF s.retc = Ord[","]
    THEN Call([s EXCEPT !.i = @ + 1], "element", Frame("get_next_token"))
    ELSE IF s.retc = Ord["]"]
    THEN Return([s EXCEPT !.i = @ + 1, !.retj = JsonArray(Top(s).items)])
    ELSE Return([fail(s, <<"LEPT_PARSE_MISS_COMMA_OR_SQUARE_BRACKET">>)
                   EXCEPT !.retj = JsonNull])

-----------------------------------------------------------------------------
(* parse_object *)

\* EXPECT(str, i, '{'); Json::object ret;
\* while (1) { string key(""); char ch = get_next_token();
ObjectOpen(s, g) ==
    LET e == EXPECT(s, Ord["{"], g)
    IN IF e.aborted THEN e ELSE Call(e, "key", Frame("get_next_token"))

\* if (failed) return fail("LEPT_PARSE_MISS_COMMA_OR_CURLY_BRACKET");
\* if (ch == '}') { ++i; return ret; }
\* if (ch != '\"') return fail("LEPT_PARSE_MISS_KEY");
\* key = parse_string();
ObjectKey(s) ==
    IF s.failed
    THEN Return([fail(s, <<"LEPT_PARSE_MISS_COMMA_OR_CURLY_BRACKET">>)
                   EXCEPT !.retj = JsonNull])
    ELSE IF s.retc = Ord["}"]
    THEN Return([s EXCEPT !.i = @ + 1, !.retj = JsonObject(Top(s).members)])
    ELSE IF s.retc # Ord["\""]
    THEN Return([fail(s, <<"LEPT_PARSE_MISS_KEY">>) EXCEPT !.retj = JsonNull])
    ELSE Call(s, "after_key", Frame("parse_string"))

\* key = parse_string(); if (failed) return Json(); ch = get_next_token();
ObjectAfterKey(s) ==
    IF s.failed THEN Return([s EXCEPT !.retj = JsonNull])
    ELSE Call([s EXCEPT !.stack[Len(s.stack)].key = s.rets],
              "colon", Frame("get_next_token"))

\* if (isfinished() || ch != ':') return fail("LEPT_PARSE_INVALID_VALUE");
\* ++i; ch = get_next_token();
ObjectColon(s) ==
    IF isfinished(s) \/ s.retc # Ord[":"]
    THEN Return([fail(s, <<"LEPT_PARSE_INVALID_VALUE">>) EXCEPT !.retj = JsonNull])
    ELSE Call([s EXCEPT !.i = @ + 1], "value", Frame("get_next_token"))

\* ... = parse_json();
ObjectValue(s) == Call(s, "store", Frame("parse_json"))

\* ObjectStore that keeps the value a key already has.
ObjectStore_KeepFirst(s) ==
    Call([s EXCEPT !.stack[Len(s.stack)].members =
              IF \E k \in 1..Len(@) : @[k][1] = Top(s).key THEN @
              ELSE MapAssign(@, Top(s).key, s.retj)],
         "separator", Frame("get_next_token"))

\* ret[key] = ...; ch = get_next_token();
ObjectStore(s) ==
    Call([s EXCEPT !.stack[Len(s.stack)].members = MapAssign(@, Top(s).key, s.retj)],
         "separator", Frame("get_next_token"))

\* if (!isfinished() && ch == ',') ++i;
\* and the next iteration's string key(""); char ch = get_next_token();
ObjectSeparator(s) ==
    LET t == IF ~isfinished(s) /\ s.retc = Ord[","] THEN [s EXCEPT !.i = @ + 1] ELSE s
    IN Call([t EXCEPT !.stack[Len(s.stack)].key = <<>>], "key", Frame("get_next_token"))

-----------------------------------------------------------------------------
(* The steps of the parse *)

\* The next state is s.
Step(s) ==
    /\ str' = s.str
    /\ i' = s.i
    /\ failed' = s.failed
    /\ err' = s.err
    /\ stack' = s.stack
    /\ retc' = s.retc
    /\ rets' = s.rets
    /\ retj' = s.retj
    /\ result' = s.result
    /\ returned' = s.returned
    /\ done' = s.done
    /\ aborted' = s.aborted
    /\ oob' = s.oob
    /\ char_signed' = s.char_signed
    /\ origin' = s.origin
    /\ UNCHANGED <<cast_saturates, operands, called>>

\* One step of the innermost call: the place the call is at, and its effect.
Next ==
    \/ /\ Running(St, "parse", "begin")
       /\ Step(ParseCall(St))
    \/ /\ Running(St, "parse", "trailing")
       /\ Step(ParseTrailing(St))
    \/ /\ Running(St, "parse", "check")
       /\ \E g \in Garbage(St) : Step(ParseFinish(St, g))
    \/ /\ Running(St, "parse_whitespace", "begin")
       /\ \E g \in Garbage(St) : Step(Whitespace(St, g))
    \/ /\ Running(St, "get_next_token", "begin")
       /\ Step(TokenSkip(St))
    \/ /\ Running(St, "get_next_token", "check")
       /\ \E g \in Garbage(St) : Step(TokenCheck(St, g))
    \/ /\ Running(St, "parse_json", "begin")
       /\ Step(JsonToken(St))
    \/ /\ Running(St, "parse_json", "switch")
       /\ Step(JsonSwitch(St))
    \/ /\ Running(St, "parse_json", "return")
       /\ Step(JsonReturn(St))
    \/ /\ Running(St, "parse_json", "return_string")
       /\ Step(JsonReturnString(St))
    \/ /\ Running(St, "parse_literal", "begin")
       /\ \E g \in Garbage(St) : Step(Literal(St, g))
    \/ /\ Running(St, "parse_string", "begin")
       /\ \E g \in Garbage(St) : Step(StringOpen(St, g))
    \/ /\ Running(St, "parse_string", "loop")
       /\ isfinished(St) \/ ByteAt(str, i) # Ord["\\"]
       /\ \E g \in Garbage(St) : Step(StringChar(St, g))
    \/ /\ Running(St, "parse_string", "loop")
       /\ ~isfinished(St)
       /\ ByteAt(str, i) = Ord["\\"]
       /\ Step(StringEscape(St))
    \/ /\ Running(St, "parse_number", "begin")
       /\ \E g \in Garbage(St) : Step(NumberBegin(St, g))
    \/ /\ Running(St, "parse_number", "int_digits")
       /\ \E g \in Garbage(St) : Step(NumberIntDigits(St, g))
    \/ /\ Running(St, "parse_number", "fraction")
       /\ \E g \in Garbage(St) : Step(NumberFraction(St, g))
    \/ /\ Running(St, "parse_number", "fraction_digits")
       /\ \E g \in Garbage(St) : Step(NumberFractionDigits(St, g))
    \/ /\ Running(St, "parse_number", "exponent")
       /\ Step(NumberExponent(St))
    \/ /\ Running(St, "parse_number", "exponent_digits")
       /\ Step(NumberExponentDigits(St))
    \/ /\ Running(St, "parse_number", "convert")
       /\ Step(NumberConvert(St))
    \/ /\ Running(St, "parse_array", "begin")
       /\ \E g \in Garbage(St) : Step(ArrayOpen(St, g))
    \/ /\ Running(St, "parse_array", "first")
       /\ Step(ArrayFirst(St))
    \/ /\ Running(St, "parse_array", "element")
       /\ Step(ArrayElement(St))
    \/ /\ Running(St, "parse_array", "push")
       /\ Step(ArrayPush(St))
    \/ /\ Running(St, "parse_array", "separator")
       /\ Step(ArraySeparator(St))
    \/ /\ Running(St, "parse_object", "begin")
       /\ \E g \in Garbage(St) : Step(ObjectOpen(St, g))
    \/ /\ Running(St, "parse_object", "key")
       /\ Step(ObjectKey(St))
    \/ /\ Running(St, "parse_object", "after_key")
       /\ Step(ObjectAfterKey(St))
    \/ /\ Running(St, "parse_object", "colon")
       /\ Step(ObjectColon(St))
    \/ /\ Running(St, "parse_object", "value")
       /\ Step(ObjectValue(St))
    \/ /\ Running(St, "parse_object", "store")
       /\ Step(ObjectStore(St))
    \/ /\ Running(St, "parse_object", "separator")
       /\ Step(ObjectSeparator(St))

\* Json::parse(in) is entered with in = text; org says where the text comes from.
InitWith(text, org, sg) ==
    /\ str = text
    /\ i = 0
    /\ failed = FALSE
    /\ err = <<>>
    /\ stack = <<Frame("parse")>>
    /\ retc = 0
    /\ rets = <<>>
    /\ retj = JsonNull
    /\ result = JsonNull
    /\ returned = JsonNull
    /\ done = FALSE
    /\ aborted = FALSE
    /\ oob = FALSE
    /\ char_signed = sg
    /\ origin = org
    /\ cast_saturates = FALSE
    /\ operands = <<>>
    /\ called = [op |-> "none", args |-> <<>>, res |-> <<>>]

-----------------------------------------------------------------------------
(* The inputs of Json::parse that the model explores *)

\* Where an input comes from: kind names the family, v is the value the text
\* is written from (JsonNull when there is none), inner is the part of the text
\* the family varies, note is what the family says about the text.
Org(kind, v, inner, note) ==
    [kind |-> kind, v |-> v, inner |-> inner, note |-> note]

\* All texts over the bytes of alphabet with lo to hi bytes.
TextsOver(alphabet, lo, hi) == UNION {[1..k -> alphabet] : k \in lo..hi}

Quoted(t) == <<Ord["\""]>> \o t \o <<Ord["\""]>>

InArray(t) == <<Ord["["]>> \o t \o <<Ord["]"]>>

InObject(t) == T(<<"{", "\"", "a", "\"", ":">>) \o t \o <<Ord["}"]>>

WhitespaceBytes == {Ord[" "], 13, 10, 9}

\* Inputs taken from the tests of main.cpp, and some that those tests lack.
BaseTexts ==
    { T(<<"n", "u", "l", "l">>),
      T(<<"f", "a", "l", "s", "e">>),
      T(<<"n", "u", "l">>),
      T(<<"1", "E", "+", "1", "0">>),
      T(<<"-", "1", ".", "5">>),
      T(<<"1", "2", "3">>),
      T(<<"1", ".">>),
      T(<<"0", "1">>),
      T(<<"1", "e", "9", "9", "9">>),
      T(<<"{", "\"", "a", "\"", ":", "}">>),
      Quoted(T(<<"H", "e", "l", "l", "o", "\\", "n", "\\", "u", "0", "0", "2", "4">>)),
      Quoted(T(<<"\\", "u", "D", "8", "3", "4", "\\", "u", "D", "D", "1", "E">>)),
      Quoted(T(<<"\\", "u", "2", "0", "A", "C", "\\", "u", "0", "0", "A", "2">>)),
      Quoted(T(<<"\\", "x">>)),
      Quoted(<<1>>),
      T(<<"\"", "a">>),
      T(<<"[", " ", "]">>),
      T(<<"[", " ", "n", "u", "l", "l", " ", ",", " ", "f", "a", "l", "s", "e", " ", ",",
          " ", "t", "r", "u", "e", " ", ",", " ", "1", "2", "3", " ", ",", " ",
          "\"", "a", "b", "c", "\"", " ", "]">>),
      T(<<"[", "[", "]", ",", "[", "0", "]", "]">>),
      T(<<" ", "{", " ", "}", " ">>),
      T(<<"{", "\"", "n", "\"", ":", "n", "u", "l", "l", ",", "\"", "a", "\"", ":",
          "[", "1", "]", ",", "\"", "o", "\"", ":", "{", "\"", "1", "\"", ":", "1", "}", "}">>),
      T(<<"{", "\"", "a", "\"", ":", "1", ",", "\"", "a", "\"", ":", "2", "}">>),
      T(<<"{", "\"", "a", "\"", ":", "\"", "\\", "u", "D", "8", "0", "0">>),
      T(<<"[", "\"", "\\", "u", "D", "8", "0", "0", "\\">>) }

\* Values built with the constructors. The doubles are 1.5, -0.25, 0.0000012
\* and 1e10; the strings hold plain bytes, a quote, a backslash, control bytes
\* and a byte above 0x7f.
MaxElems == 2

MaxStringLen == 2

StringBytes == {Ord["a"], Ord["\""], Ord["\\"], 10, 1, 200}

Scalars ==
    {JsonNull, JsonBoolean(TRUE), JsonBoolean(FALSE),
     JsonInt(0), JsonInt(1), JsonInt(-12),
     JsonDouble(Dbl(FALSE, 15, -1)), JsonDouble(Dbl(TRUE, 25, -2)),
     JsonDouble(Dbl(FALSE, 12, -7)), JsonDouble(Dbl(FALSE, 1, 10))}
    \cup {JsonString(t) : t \in TextsOver(StringBytes, 0, MaxStringLen)}

SmallValues ==
    {JsonNull, JsonInt(1), JsonDouble(Dbl(FALSE, 15, -1)), JsonString(T(<<"a">>))}

ArraysOf(S) == {JsonArray(items) : items \in UNION {[1..k -> S] : k \in 0..MaxElems}}

\* The objects with the keys "a", "b", ... and members from S.
ObjectsOf(S) ==
    {JsonObject([j \in 1..Len(f) |-> <<<<Ord["a"] + (j - 1)>>, f[j]>>]) :
        f \in UNION {[1..k -> S] : k \in 0..MaxElems}}

Containers == ArraysOf(SmallValues) \cup ObjectsOf(SmallValues)

Values ==
    Scalars \cup Containers
    \cup {JsonArray(<<x>>) : x \in Containers}
    \cup {JsonObject(<<<<T(<<"k">>), x>>>>) : x \in Containers}

\* parse(v.dump()) for the values above.
ValueInputs ==
    {<<Dump(v, sg), Org("value", v, <<>>, "none"), sg>> : v \in Values, sg \in BOOLEAN}

BaseInputs ==
    {<<t, Org("base", JsonNull, <<>>, "none"), sg>> : t \in BaseTexts, sg \in BOOLEAN}

\* ts[1] gaps[1] ts[2] gaps[2] ... ts[n]
RECURSIVE Join(_, _)

Join(ts, gaps) ==
    IF ts = <<>> THEN <<>>
    ELSE IF Len(ts) = 1 THEN ts[1]
    ELSE ts[1] \o gaps[1] \o Join(Tail(ts), Tail(gaps))

\* What stands between two elements or pairs: a comma, or only a space.
Gaps == {<<Ord[","]>>, <<Ord[" "]>>}

GapsFor(n) == IF n < 2 THEN {<<>>} ELSE [1..(n - 1) -> Gaps]

\* Array texts: up to MaxElems elements, each gap a comma or a space, and at
\* the end "]", ",]", nothing or ",".
ElementTexts == {T(<<"1">>), Quoted(T(<<"a">>)), T(<<"[", "]">>)}

ArrayEnds == {T(<<"]">>), T(<<",", "]">>), <<>>, T(<<",">>)}

ArrayNote(gaps, end) ==
    IF \E k \in 1..Len(gaps) : gaps[k] # <<Ord[","]>> THEN "missing_comma"
    ELSE IF end = T(<<",", "]">>) THEN "trailing_comma"
    ELSE IF end # T(<<"]">>) THEN "no_close"
    ELSE "none"

\* The text and its note, for every choice of elements, gaps and end.
ArrayTexts ==
    UNION {{<<<<Ord["["]>> \o Join(es, gaps) \o end, ArrayNote(gaps, end)>> :
               gaps \in GapsFor(Len(es)), end \in ArrayEnds} :
           es \in TextsOver(ElementTexts, 0, MaxElems)}

\* The array texts, alone and (the shorter ones) as the element of an array.
ArrayInputs ==
    {<<x[1], Org("array", JsonNull, x[1], x[2]), sg>> : x \in ArrayTexts, sg \in BOOLEAN}
    \cup {<<InArray(x[1]), Org("array", JsonNull, x[1], x[2]), sg>> :
            x \in {y \in ArrayTexts : Len(y[1]) <= 2 * MaxElems}, sg \in BOOLEAN}

\* Object texts: up to MaxElems pairs with the keys "a", "b", ..., each gap a
\* comma or a space, the last pair written properly, with its key unquoted or
\* without its colon, and at the end "}", ",}", nothing or ",".
MemberTexts == {T(<<"1">>), T(<<"[", "]">>)}

PairForms == {"pair", "unquoted_key", "missing_colon"}

PairText(j, value, form) ==
    LET key == <<Ord["a"] + (j - 1)>>
    IN CASE form = "pair" -> Quoted(key) \o <<Ord[":"]>> \o value
         [] form = "unquoted_key" -> key \o <<Ord[":"]>> \o value
         [] form = "missing_colon" -> Quoted(key) \o <<Ord[" "]>> \o value

ObjectEnds == {T(<<"}">>), T(<<",", "}">>), <<>>, T(<<",">>)}

ObjectNote(gaps, form, end) ==
    IF form # "pair" THEN form
    ELSE IF \E k \in 1..Len(gaps) : gaps[k] # <<Ord[","]>> THEN "missing_comma"
    ELSE IF end = T(<<",", "}">>) THEN "trailing_comma"
    ELSE IF end # T(<<"}">>) THEN "no_close"
    ELSE "none"

ObjectText(vs, gaps, form, end) ==
    LET n == Len(vs)
        pairs == [j \in 1..n |-> PairText(j, vs[j], IF j = n THEN form ELSE "pair")]
    IN <<Ord["{"]>> \o Join(pairs, gaps) \o end

ObjectTexts ==
    UNION {{<<ObjectText(vs, gaps, form, end), ObjectNote(gaps, form, end)>> :
               gaps \in GapsFor(Len(vs)),
               form \in IF vs = <<>> THEN {"pair"} ELSE PairForms,
               end \in ObjectEnds} :
           vs \in TextsOver(MemberTexts, 0, MaxElems)}

ObjectInputs ==
    {<<x[1], Org("object", JsonNull, x[1], x[2]), sg>> : x \in ObjectTexts, sg \in BOOLEAN}

\* Strings with \u escapes: one escape, followed by the closing quote, by a
\* plain byte, by another kind of escape or by a second \u escape. inner holds
\* the code units of the escapes that stand next to each other.
CodeUnits == {65, 55295, 55296, 56319, 56320, 57343, 57344}

UnicodeEscapeText(u) ==
    T(<<"\\", "u">>) \o <<HexDigit(u \div 4096), HexDigit((u \div 256) % 16),
                           HexDigit((u \div 16) % 16), HexDigit(u % 16)>>

IsHighSurrogate(u) == u >= 55296 /\ u <= 56319

IsLowSurrogate(u) == u >= 56320 /\ u <= 57343

\* Every high surrogate is followed at once by a low one, and every low one
\* follows a high one.
WellPaired(units) ==
    \A k \in 1..Len(units) :
        /\ IsHighSurrogate(units[k]) =>
              k < Len(units) /\ IsLowSurrogate(units[k + 1])
        /\ IsLowSurrogate(units[k]) =>
              k > 1 /\ IsHighSurrogate(units[k - 1])

SurrogateTexts ==
    {<<Quoted(UnicodeEscapeText(u) \o rest), <<u>>>> :
        u \in CodeUnits, rest \in {<<>>, T(<<"a">>), T(<<"\\", "n">>)}}
    \cup {<<Quoted(UnicodeEscapeText(u) \o UnicodeEscapeText(u2)), <<u, u2>>>> :
            u \in CodeUnits, u2 \in CodeUnits}

SurrogateInputs ==
    {<<x[1], Org("surrogate", JsonNull, x[2], "none"), sg>> :
        x \in SurrogateTexts, sg \in BOOLEAN}

\* Arrays in arrays and objects in objects, up to two levels deeper than
\* max_depth, the limit of the draft's parse_json(int depth); inner holds the
\* depth.
max_depth == 3

RECURSIVE NestedArray(_)

NestedArray(depth) == IF depth = 0 THEN T(<<"1">>) ELSE InArray(NestedArray(depth - 1))

RECURSIVE NestedObject(_)

NestedObject(depth) == IF depth = 0 THEN T(<<"1">>) ELSE InObject(NestedObject(depth - 1))

NestedInputs ==
    {<<f[1], Org("nested", JsonNull, <<f[2]>>, "none"), sg>> :
        f \in UNION {{<<NestedArray(d), d>>, <<NestedObject(d), d>>} :
                        d \in 1..(max_depth + 2)},
        sg \in BOOLEAN}

\* Nothing but whitespace, the empty text included.
MaxBlank == 3

BlankInputs ==
    {<<t, Org("blank", JsonNull, <<>>, "none"), sg>> :
        t \in TextsOver(WhitespaceBytes, 0, MaxBlank), sg \in BOOLEAN}

\* A value, whitespace after it, and then nothing or something else.
MaxPad == 2

TrailingValues ==
    {JsonNull, JsonBoolean(TRUE), JsonDouble(Dbl(FALSE, 15, -1)),
     JsonString(T(<<"a">>)), JsonArray(<<JsonDouble(Dbl(FALSE, 15, -1)), JsonNull>>),
     JsonObject(<<<<T(<<"a">>), JsonBoolean(FALSE)>>>>)}

TrailingTails == {<<>>, T(<<"x">>), T(<<",">>), T(<<"]">>), <<200>>}

TrailingInputs ==
    {<<Dump(v, FALSE) \o pad \o tail, Org("trailing", v, tail, "none"), sg>> :
        v \in TrailingValues, pad \in TextsOver(WhitespaceBytes, 0, MaxPad),
        tail \in TrailingTails, sg \in BOOLEAN}

\* Number texts: every text of up to MaxNumberLen bytes over "-01.e", the
\* texts with a leading '+', and the texts with an exponent of up to
\* MaxExpDigits digits, which reach beyond the range of double.
MaxNumberLen == 4

MaxExpDigits == 3

NumberBytes == {Ord["-"], Ord["0"], Ord["1"], Ord["."], Ord["e"]}

Mantissas == {T(<<"1">>), T(<<"0">>), T(<<"-", "1", ".", "5">>)}

Nines(k) == [j \in 1..k |-> Ord["9"]]

ExponentTexts ==
    {m \o e \o sign \o Nines(k) :
        m \in Mantissas, e \in {T(<<"e">>), T(<<"E">>)},
        sign \in {<<>>, T(<<"+">>), T(<<"-">>)}, k \in 1..MaxExpDigits}

PlusTexts == {T(<<"+">>) \o m : m \in Mantissas}

NumberTexts == TextsOver(NumberBytes, 1, MaxNumberLen) \cup ExponentTexts \cup PlusTexts

\* The number texts alone and, the shorter ones, as an array element and as
\* an object value.
NumberInputs ==
    {<<t, Org("number", JsonNull, t, "top"), sg>> : t \in NumberTexts, sg \in BOOLEAN}
    \cup {<<InArray(t), Org("number", JsonNull, t, "array"), sg>> :
            t \in {u \in NumberTexts : Len(u) < MaxNumberLen}, sg \in BOOLEAN}
    \cup {<<InObject(t), Org("number", JsonNull, t, "object"), sg>> :
            t \in {u \in NumberTexts : Len(u) < MaxNumberLen}, sg \in BOOLEAN}

\* t matches -?(0|[1-9][0-9]*)(\.[0-9]+)?([eE][+-]?[0-9]+)? : it splits, after
\* the sign, into an integer part t[first..p], a fraction t[p+1..q] and an
\* exponent t[q+1..n].
AllDigits(t, lo, hi) == \A k \in lo..hi : is_digit(t[k])

MatchesNumber(t) ==
    LET n == Len(t)
        first == IF n > 0 /\ t[1] = Ord["-"] THEN 2 ELSE 1
    IN \E p \in first..n : \E q \in p..n :
          /\ \/ p = first /\ t[first] = Ord["0"]
             \/ is_digit19(t[first]) /\ AllDigits(t, first, p)
          /\ \/ q = p
             \/ q > p + 1 /\ t[p + 1] = Ord["."] /\ AllDigits(t, p + 2, q)
          /\ \/ q = n
             \/ /\ t[q + 1] \in {Ord["e"], Ord["E"]}
                /\ \/ n > q + 1 /\ AllDigits(t, q + 2, n)
                   \/ n > q + 2 /\ t[q + 2] \in {Ord["+"], Ord["-"]} /\ AllDigits(t, q + 3, n)

-----------------------------------------------------------------------------
(* Specifications: Json::parse run on one input of a family *)

Init == \E x \in ValueInputs \cup BaseInputs : InitWith(x[1], x[2], x[3])

Spec == Init /\ [][Next]_vars

InitTexts ==
    \E x \in ArrayInputs \cup ObjectInputs \cup SurrogateInputs \cup NestedInputs
             \cup BlankInputs \cup BaseInputs :
        InitWith(x[1], x[2], x[3])

SpecTexts == InitTexts /\ [][Next]_vars

InitTrailing == \E x \in TrailingInputs \cup BaseInputs : InitWith(x[1], x[2], x[3])

SpecTrailing == InitTrailing /\ [][Next]_vars

InitNumbers == \E x \in NumberInputs \cup BaseInputs : InitWith(x[1], x[2], x[3])

SpecNumbers == InitNumbers /\ [][Next]_vars

-----------------------------------------------------------------------------
(* Round trip and idempotence of dump *)

\* C1: for every constructed value v, Json::parse(v.dump()) succeeds and is
\* equal to v under operator==.
RoundTrip ==
    done /\ origin.kind = "value" => ~failed /\ JsonEq(returned, origin.v)

\* C2: for every constructed value v, dump(parse(dump(v))) is the same text as
\* dump(v).
DumpIdempotent ==
    done /\ origin.kind = "value" => ~failed /\ Dump(returned, char_signed) = str

-----------------------------------------------------------------------------
(* Failure *)

\* C3: once failed is set it stays set, and a parse that has failed returns the
\* Null value, whatever the parser has built; the parse never ends in an
\* exception or a failed assert.
FailedReturnsNull ==
    /\ [](~aborted /\ (done /\ failed => returned = JsonNull))
    /\ [][failed => failed']_vars

\* A parse that failed after a value other than Null had been built, and
\* returned Null.
FailedAfterValue ==
    done /\ failed /\ result # JsonNull /\ returned = JsonNull

-----------------------------------------------------------------------------
(* Syntax errors *)

Rejected == failed /\ returned = JsonNull

\* C4: an array text with a comma just before its ']', with two elements that
\* no comma separates or with no closing ']' is rejected, and so are {"a":}
\* and 01; [] is accepted as the empty array.
ArraySyntaxErrorsRejected ==
    done =>
      /\ origin.kind = "array" /\ origin.note # "none" => Rejected
      /\ str \in {T(<<"{", "\"", "a", "\"", ":", "}">>), T(<<"0", "1">>)} => Rejected
      /\ str = T(<<"[", "]">>) => ~failed /\ returned = JsonArray(<<>>)

\* The parse of [1 "a"] has ended.
MissingCommaArrayParsed ==
    done /\ str = T(<<"[", "1", " ", "\"", "a", "\"", "]">>) /\ Rejected

\* C5: an object text with an unquoted key, without the ':' after a key, with
\* two pairs that no comma separates, with a comma just before its '}' or
\* with no closing '}' is rejected; {} is accepted as the empty object.
ObjectSyntaxErrorsRejected ==
    done =>
      /\ origin.kind = "object" /\ origin.note # "none" => Rejected
      /\ str = T(<<"{", "}">>) => ~failed /\ returned = JsonObject(<<>>)

\* C6: a string in which a \u escape of a high surrogate is not followed at
\* once by one of a low surrogate, or in which a \u escape of a low surrogate
\* follows no high one, is rejected.
UnpairedSurrogatesRejected ==
    done /\ origin.kind = "surrogate" /\ ~WellPaired(origin.inner) => Rejected

\* C7: a document nested deeper than max_depth is rejected.
DepthBounded ==
    done /\ origin.kind = "nested" /\ origin.inner[1] > max_depth => Rejected

\* C8: when the cursor is not at the end of the input after the first value
\* and the whitespace behind it, the parse is rejected; a value followed by
\* whitespace only is accepted and is the value returned.
TrailingGarbageRejected ==
    done =>
      /\ i # Len(str) => Rejected
      /\ origin.kind = "trailing" =>
            IF origin.inner = <<>>
            THEN ~failed /\ JsonEq(returned, origin.v)
            ELSE Rejected

\* A value and whitespace were read, and something else follows.
GarbageAfterPaddedValue ==
    /\ done /\ origin.kind = "trailing" /\ origin.inner # <<>>
    /\ JsonEq(result, origin.v) /\ IsWhitespace(ByteAt(str, i - 1)) /\ Rejected

\* C9: on an empty input and on one of whitespace only the parse is rejected
\* with the end-of-input error, and the cursor never passes the end.
BlankInputRejected ==
    origin.kind = "blank" =>
      /\ i <= Len(str) /\ ~oob
      /\ done => Rejected /\ err = <<"unexpected end of input">>

\* The parse of an input of whitespace has ended.
BlankInputParsed ==
    done /\ origin.kind = "blank" /\ Len(str) > 1 /\ i = Len(str) /\ Rejected

-----------------------------------------------------------------------------
(* Number grammar *)

\* The number text of the input is the whole input, the only element of the
\* array or the only member of the object, and the parse gave it as a Number.
AcceptedAsNumber ==
    /\ ~failed
    /\ CASE origin.note = "top" -> returned.type = "NUMBER"
         [] origin.note = "array" ->
              /\ returned.type = "ARRAY" /\ Len(returned.items) = 1
              /\ returned.items[1].type = "NUMBER"
         [] origin.note = "object" ->
              /\ returned.type = "OBJECT" /\ Len(returned.members) = 1
              /\ returned.members[1][2].type = "NUMBER"

-----------------------------------------------------------------------------
(* String errors *)

\* The bytes that may follow a backslash in a string.
EscapeBytes ==
    {Ord["\""], Ord["\\"], Ord["/"], Ord["b"], Ord["f"], Ord["n"], Ord["r"],
     Ord["t"], Ord["u"]}

\* Strings with one thing wrong: no closing quote, a raw byte below 0x20, a
\* backslash before a byte that names no escape, or \u before fewer than four
\* hex digits (then the closing quote or a byte that is no hex digit).
StringErrorTexts ==
    {<<<<Ord["\""]>> \o body, "unterminated">> :
        body \in {<<>>, T(<<"a">>), T(<<"\\">>), T(<<"a", "\\">>), T(<<"\\", "n">>),
                  T(<<"\\", "\"">>), T(<<"\\", "u", "0", "0", "4", "1">>),
                  T(<<"\\", "u", "0", "0">>), T(<<"\\", "u">>)}}
    \cup {<<Quoted(pre \o <<c>> \o post), "control_byte">> :
            c \in 0..31, pre \in {<<>>, T(<<"a">>)}, post \in {<<>>, T(<<"b">>)}}
    \cup {<<Quoted(<<Ord["\\"], c>>), "bad_escape">> : c \in (0..255) \ EscapeBytes}
    \cup {<<Quoted(T(<<"\\", "u">>) \o h \o rest), "bad_hex">> :
            h \in TextsOver({Ord["0"], Ord["A"], Ord["f"]}, 0, 3),
            rest \in {<<>>, T(<<"g">>), T(<<"G">>), T(<<" ">>), T(<<"-", "1">>),
                      T(<<"+", "1">>), T(<<"x", "0", "0", "0", "0">>), <<200>>}}

StringErrorInputs ==
    {<<x[1], Org("string_error", JsonNull, x[1], x[2]), sg>> :
        x \in StringErrorTexts, sg \in BOOLEAN}

\* \uXXXX for every code unit whose four hex digits are drawn from 0 7 8 A D E
\* F, outside D800..DFFF, its letters in upper case, in lower case, or
\* alternating; and the eight escapes of one letter.
EscapeInputs ==
    LET nibbles == {0, 7, 8, 10, 13, 14, 15}
        lower(n) == IF n < 10 THEN Ord["0"] + n ELSE Ord["a"] + (n - 10)
        digit(n, k, form) ==
            IF form = "lower" \/ (form = "mixed" /\ k % 2 = 1) THEN lower(n)
            ELSE HexDigit(n)
        unit(h) == ((h[1] * 16 + h[2]) * 16 + h[3]) * 16 + h[4]
        text(h, form) ==
            Quoted(T(<<"\\", "u">>) \o [k \in 1..4 |-> digit(h[k], k, form)])
    IN {<<text(h, form), Org("escape", JsonNull, <<unit(h)>>, "unicode"), sg>> :
            h \in {g \in [1..4 -> nibbles] : ~(g[1] = 13 /\ g[2] >= 8)},
            form \in {"upper", "lower", "mixed"}, sg \in BOOLEAN}
       \cup {<<Quoted(<<Ord["\\"], c>>), Org("escape", JsonNull, <<c>>, "simple"), sg>> :
               c \in EscapeBytes \ {Ord["u"]}, sg \in BOOLEAN}

\* A high surrogate escape immediately followed by a low surrogate escape,
\* after no byte or "a" and before no byte or "b", the hex letters in upper
\* or lower case.
PairInputs ==
    LET offsets == {0, 1, 52, 63, 64, 286, 511, 512, 1023}
        lower(c) == IF c >= Ord["A"] /\ c <= Ord["F"] THEN c + 32 ELSE c
        unit(u, form) ==
            IF form = "lower" THEN [k \in 1..6 |-> lower(UnicodeEscapeText(u)[k])]
            ELSE UnicodeEscapeText(u)
        fill(c, n) == [k \in 1..n |-> c]
    IN {<<Quoted(fill(Ord["a"], m) \o unit(55296 + a, fh) \o unit(56320 + b, fl)
                   \o fill(Ord["b"], n)),
          Org("pair", JsonNull, <<55296 + a, 56320 + b, m, n>>, "none"), sg>> :
            a \in offsets, b \in offsets, m \in 0..1, n \in 0..1,
            fh \in {"upper", "lower"}, fl \in {"upper", "lower"}, sg \in BOOLEAN}

InitStrings ==
    \E x \in StringErrorInputs \cup EscapeInputs \cup PairInputs \cup BaseInputs :
        InitWith(x[1], x[2], x[3])

SpecStrings == InitStrings /\ [][Next]_vars

\* C11: a string that ends before its closing quote (also just after a
\* backslash), that holds a raw byte below 0x20, in which a backslash stands
\* before a byte other than " \ / b f n r t u, or in which \u stands before
\* fewer than four hex digits is rejected.
StringErrorsRejected ==
    done /\ origin.kind = "string_error" => Rejected

\* The parse of a string that ends just after a backslash has ended.
BackslashAtEndParsed ==
    done /\ str = T(<<"\"", "a", "\\">>) /\ Rejected /\ i = Len(str)

\* Json::string_value(): the bytes of a String, the empty string of any other
\* variant.
string_value(v) == IF v.type = "STRING" THEN v.s ELSE <<>>

\* bytes is the UTF-8 encoding of the scalar u: one byte 0xxxxxxx below 0x80,
\* 110xxxxx 10xxxxxx below 0x800, 1110xxxx 10xxxxxx 10xxxxxx below 0x10000,
\* 11110xxx and three bytes 10xxxxxx from there to 0x10FFFF.
IsUtf8Of(bytes, u) ==
    LET n == Len(bytes)
        cont(k) == bytes[k] \div 64 = 2
        low(k) == bytes[k] % 64
    IN CASE u < 128 -> bytes = <<u>>
         [] u >= 128 /\ u < 2048 ->
              /\ n = 2 /\ bytes[1] \div 32 = 6 /\ cont(2)
              /\ (bytes[1] % 32) * 64 + low(2) = u
         [] u >= 2048 /\ u < 65536 ->
              /\ n = 3 /\ bytes[1] \div 16 = 14 /\ cont(2) /\ cont(3)
              /\ ((bytes[1] % 16) * 64 + low(2)) * 64 + low(3) = u
         [] u >= 65536 /\ u <= 1114111 ->
              /\ n = 4 /\ bytes[1] \div 8 = 30 /\ cont(2) /\ cont(3) /\ cont(4)
              /\ (((bytes[1] % 8) * 64 + low(2)) * 64 + low(3)) * 64 + low(4) = u
         [] OTHER -> FALSE

\* The byte each escape of one letter stands for.
SimpleEscapeByte(c) ==
    CASE c = Ord["\""] -> 34 [] c = Ord["\\"] -> 92 [] c = Ord["/"] -> 47
      [] c = Ord["b"] -> 8 [] c = Ord["f"] -> 12 [] c = Ord["n"] -> 10
      [] c = Ord["r"] -> 13 [] c = Ord["t"] -> 9

\* C12: the parse of "\uXXXX", XXXX the hex digits (upper or lower case) of a
\* code point below 0x10000 outside D800..DFFF, is the String holding the
\* UTF-8 encoding of that code point, and the parse of an escape of one letter
\* is the String holding the one byte it stands for.
EscapesDecoded ==
    done /\ origin.kind = "escape" =>
        /\ ~failed
        /\ returned.type = "STRING"
        /\ origin.note = "unicode" => IsUtf8Of(string_value(returned), origin.inner[1])
        /\ origin.note = "simple" =>
               string_value(returned) = <<SimpleEscapeByte(origin.inner[1])>>

\* The escape of U+0800, the first code point of three bytes, has been parsed.
ThreeByteEscapeParsed ==
    /\ done /\ origin.kind = "escape" /\ origin.inner = <<2048>>
    /\ string_value(returned) = <<224, 160, 128>>

\* C13: a high surrogate H immediately followed by an escaped low surrogate L
\* puts into the parsed string the four UTF-8 bytes of the scalar
\* 0x10000 + ((H - 0xD800) << 10) + (L - 0xDC00), and the cursor is just
\* after the second escape when these bytes have been appended.
SurrogatePairsCombined ==
    origin.kind = "pair" =>
        LET H == origin.inner[1]
            L == origin.inner[2]
            m == origin.inner[3]
            n == origin.inner[4]
            scalar == 65536 + (H - 55296) * 1024 + (L - 56320)
            s == string_value(returned)
        IN /\ done =>
                /\ ~failed
                /\ returned.type = "STRING"
                /\ Len(s) = m + 4 + n
                /\ \A k \in 1..m : s[k] = Ord["a"]
                /\ IsUtf8Of(SubSeq(s, m + 1, m + 4), scalar)
                /\ \A k \in 1..n : s[m + 4 + k] = Ord["b"]
           /\ Running(St, "parse_string", "loop") /\ Len(Top(St).out) = m + 4 =>
                i = 1 + m + 12

\* The bytes F0 9D 84 9E of U+1D11E have just been appended for the pair
\* D834 DD1E.
ClefPairAppended ==
    /\ Running(St, "parse_string", "loop")
    /\ origin.kind = "pair" /\ origin.inner = <<55348, 56606, 1, 1>>
    /\ Top(St).out = <<Ord["a"], 240, 157, 132, 158>>
    /\ i = 14

-----------------------------------------------------------------------------
(* Accessors *)

\* Json::size(): JsonString::size, JsonArray::size, JsonObject::size, and
\* JsonValue::size for the other variants.
size(v) ==
    CASE v.type = "STRING" -> Len(v.s)
      [] v.type = "ARRAY" -> Len(v.items)
      [] v.type = "OBJECT" -> Len(v.members)
      [] OTHER -> 0

\* Json::array_items(): the items of an Array, the empty vector otherwise.
array_items(v) == IF v.type = "ARRAY" THEN v.items ELSE <<>>

\* Json::object_items(): the map of an Object, the empty map otherwise.
object_items(v) == IF v.type = "OBJECT" THEN v.members ELSE <<>>

\* at_index that counts the items from 1.
at_index_FromOne(v, n) ==
    IF v.type = "ARRAY" /\ n >= 1 /\ n <= Len(v.items) THEN v.items[n] ELSE JsonNull

\* Json::operator[](size_t i), i counted from 0: JsonArray::operator[] gives
\* the item, or the static null for i >= size(); any other variant gives the
\* static null.
at_index(v, n) ==
    IF v.type = "ARRAY" /\ n < Len(v.items) THEN v.items[n + 1] ELSE JsonNull

\* Json::operator[](const string &key): JsonObject::operator[] gives the
\* value found at key, or the static null at end(); any other variant gives
\* the static null.
at_key(v, key) ==
    IF v.type = "OBJECT" /\ \E k \in 1..Len(v.members) : v.members[k][1] = key
    THEN v.members[CHOOSE k \in 1..Len(v.members) : v.members[k][1] = key][2]
    ELSE JsonNull

-----------------------------------------------------------------------------
(* Well-formed arrays and objects *)

MaxItems == 3

\* The whitespace at the k-th place between two tokens: none, a space, or a
\* tab, a line feed, a carriage return and a space in turn.
Pad(style, k) ==
    CASE style = "none" -> <<>>
      [] style = "space" -> <<Ord[" "]>>
      [] style = "mixed" -> <<<<9, 10, 13, 32>>[(k % 4) + 1]>>

\* Element texts with the value each stands for.
ElementTable ==
    {<<T(<<"n", "u", "l", "l">>), JsonNull>>,
     <<T(<<"1">>), JsonDouble(IntToDouble(1))>>,
     <<Quoted(T(<<"a">>)), JsonString(T(<<"a">>))>>,
     <<T(<<"[", "]">>), JsonArray(<<>>)>>,
     <<T(<<"[", "1", " ", ",", "[", "t", "r", "u", "e", "]", "]">>),
       JsonArray(<<JsonDouble(IntToDouble(1)), JsonArray(<<JsonBoolean(TRUE)>>)>>)>>}

\* "[" e1 "," e2 "," ... "]" with the whitespace of style around every token.
ArrayTextOf(es, style) ==
    LET n == Len(es)
        body[k \in 0..n] ==
            IF k = 0 THEN <<>>
            ELSE body[k - 1] \o (IF k > 1 THEN <<Ord[","]>> ELSE <<>>)
                 \o Pad(style, 2 * k - 2) \o es[k][1] \o Pad(style, 2 * k - 1)
    IN <<Ord["["]>> \o (IF n = 0 THEN Pad(style, 0) ELSE body[n]) \o <<Ord["]"]>>

\* Every element text alone (inner: its value), and every array of up to
\* MaxItems of them (inner: the values of its elements, in source order).
ElementInputs ==
    {<<e[1], Org("element", JsonNull, <<e[2]>>, "none"), sg>> :
        e \in ElementTable, sg \in BOOLEAN}
    \cup {<<ArrayTextOf(es, style),
            Org("elements", JsonNull, [k \in 1..Len(es) |-> es[k][2]], style), TRUE>> :
            es \in UNION {[1..n -> ElementTable] : n \in 0..MaxItems},
            style \in {"none", "space", "mixed"}}

MaxPairs == 3

\* Well-formed object texts of up to MaxPairs pairs, the keys "a" and "b",
\* the values the element texts of up to three bytes, with the whitespace of
\* style around every token (inner: the pairs <<key, value>> in source order).
WellFormedObjectInputs ==
    LET values == {e \in ElementTable : Len(e[1]) <= 3}
        keys == {T(<<"a">>), T(<<"b">>)}
        pair(p, k, style) ==
            Pad(style, 4 * k) \o Quoted(p[1]) \o Pad(style, 4 * k + 1) \o <<Ord[":"]>>
            \o Pad(style, 4 * k + 2) \o p[2][1] \o Pad(style, 4 * k + 3)
        text(ps, style) ==
            LET body[k \in 0..Len(ps)] ==
                    IF k = 0 THEN <<>>
                    ELSE body[k - 1] \o (IF k > 1 THEN <<Ord[","]>> ELSE <<>>)
                         \o pair(ps[k], k, style)
            IN <<Ord["{"]>> \o (IF ps = <<>> THEN Pad(style, 0) ELSE body[Len(ps)])
               \o <<Ord["}"]>>
    IN {<<text(ps, style),
          Org("pairs", JsonNull, [k \in 1..Len(ps) |-> <<ps[k][1], ps[k][2][2]>>], style),
          TRUE>> :
            ps \in UNION {[1..n -> keys \X values] : n \in 0..MaxPairs},
            style \in {"none", "mixed"}}

SpecContainers ==
    /\ \E x \in ElementInputs \cup WellFormedObjectInputs \cup BaseInputs :
          InitWith(x[1], x[2], x[3])
    /\ [][Next]_vars

\* C14: the parse of a well-formed array text of n elements, whatever the
\* whitespace between its tokens, is an Array of size n whose i-th item is the
\* parse of the i-th element text, the elements being scalars or arrays.
ArrayStructurePreserved ==
    /\ done /\ origin.kind = "element" => ~failed /\ returned = origin.inner[1]
    /\ done /\ origin.kind = "elements" =>
          /\ ~failed
          /\ returned.type = "ARRAY"
          /\ size(returned) = Len(origin.inner)
          /\ \A k \in 1..Len(origin.inner) :
                at_index(returned, k - 1) = origin.inner[k]
          /\ array_items(returned) = origin.inner

\* An array of three elements between mixed whitespace has been parsed, its
\* last element a nested array.
ThreeItemArrayParsed ==
    /\ done /\ origin.kind = "elements" /\ origin.note = "mixed"
    /\ size(returned) = 3
    /\ at_index(returned, 0) = JsonString(T(<<"a">>))
    /\ at_index(returned, 2) =
          JsonArray(<<JsonDouble(IntToDouble(1)), JsonArray(<<JsonBoolean(TRUE)>>)>>)

\* C15: the parse of a well-formed object text is an Object whose size is the
\* number of distinct keys of the text and whose value at each key is the
\* parse of the value text of the last pair with that key.
ObjectLastWriteWins ==
    /\ done /\ origin.kind = "element" => ~failed /\ origin.inner = <<returned>>
    /\ done /\ origin.kind = "pairs" =>
          LET ps == origin.inner
              last(k) == \A j \in (k + 1)..Len(ps) : ps[j][1] # ps[k][1]
          IN /\ ~failed
             /\ returned.type = "OBJECT"
             /\ size(returned) = Cardinality({ps[k][1] : k \in 1..Len(ps)})
             /\ \A k \in 1..Len(ps) : last(k) => at_key(returned, ps[k][1]) = ps[k][2]

\* The object text with the key "a" before 1, the key "b", and the key "a"
\* again before [] has been parsed: two keys, and [] at "a".
DuplicateKeyParsed ==
    /\ done /\ origin.kind = "pairs" /\ Len(origin.inner) = 3
    /\ origin.inner[1] = <<T(<<"a">>), JsonDouble(IntToDouble(1))>>
    /\ origin.inner[2][1] = T(<<"b">>)
    /\ origin.inner[3] = <<T(<<"a">>), JsonArray(<<>>)>>
    /\ size(returned) = 2
    /\ at_key(returned, T(<<"a">>)) = JsonArray(<<>>)

\* Json::int_value(): JsonInt gives its int, JsonDouble
\* static_cast<int>(m_value), which drops the fraction and is undefined when
\* the result does not fit an int: a build then gives the nearest int and 0
\* for a NaN (saturates, as ARM's fcvtzs does) or INT_MIN (as x86's cvttsd2si
\* does); any other variant gives 0.
int_value(v, saturates) ==
    IF v.type # "NUMBER" THEN 0
    ELSE IF v.rep = "int" THEN v.n
    ELSE LET d == v.d
             limit == 2147483647
             whole == IF d.exp >= 0 THEN d.mant * Pow10(d.exp)
                      ELSE IF -d.exp >= 10 THEN 0
                      ELSE d.mant \div Pow10(-d.exp)
             fits == d.exp <= 0 \/ (d.exp <= 9 /\ d.mant <= limit \div Pow10(d.exp))
         IN IF d.cls = "finite" /\ fits THEN (IF d.neg THEN -whole ELSE whole)
            ELSE IF ~saturates THEN -limit - 1
            ELSE IF d.cls = "nan" THEN 0
            ELSE IF d.neg THEN -limit - 1
            ELSE limit

\* Json::bool_value(): the bool of a Bool, false otherwise.
bool_value(v) == v.type = "BOOL" /\ v.b

-----------------------------------------------------------------------------
(* The value API: comparisons and accessors called on constructed values *)

\* Values as the constructors build them, each Number with the place of its
\* double on the number line (0 for a NaN), each other value with -1.
ValueTable ==
    LET a == T(<<"a">>)
        b == T(<<"b">>)
    IN {<<JsonDouble(DblInf(TRUE)), 1>>,
        <<JsonInt(-1), 2>>, <<JsonDouble(IntToDouble(-1)), 2>>,
        <<JsonInt(0), 3>>, <<JsonDouble(IntToDouble(0)), 3>>,
        <<JsonDouble(Dbl(TRUE, 0, 0)), 3>>,
        <<JsonDouble(Dbl(FALSE, 5, -1)), 4>>,
        <<JsonInt(1), 5>>, <<JsonDouble(IntToDouble(1)), 5>>,
        <<JsonDouble(Dbl(FALSE, 15, -1)), 6>>,
        <<JsonInt(2147483647), 7>>, <<JsonDouble(IntToDouble(2147483647)), 7>>,
        <<JsonDouble(Dbl(FALSE, 1, 10)), 8>>,
        <<JsonDouble(DblInf(FALSE)), 9>>,
        <<JsonDouble(DblNaN(1)), 0>>, <<JsonDouble(DblNaN(2)), 0>>}
       \cup {<<v, -1>> : v \in
               {JsonNull, JsonBoolean(FALSE), JsonBoolean(TRUE),
                JsonString(<<>>), JsonString(a), JsonString(T(<<"a", "b">>)),
                JsonArray(<<>>), JsonArray(<<JsonInt(1)>>),
                JsonArray(<<JsonDouble(IntToDouble(1))>>),
                JsonArray(<<JsonInt(1), JsonNull>>),
                JsonArray(<<JsonDouble(DblNaN(1))>>),
                JsonObject(<<>>), JsonObject(<<<<a, JsonInt(1)>>>>),
                JsonObject(<<<<a, JsonInt(2)>>>>), JsonObject(<<<<b, JsonNull>>>>),
                JsonObject(<<<<a, JsonInt(1)>>, <<b, JsonArray(<<>>)>>>>)}}

\* Variant of ValueCall: array_items moves the elements out of the value.
ValueCall_Moves(op, args, res) ==
    /\ called' = [op |-> op, args |-> args, res |-> res]
    /\ operands' = IF op = "array_items" /\ operands[1].type = "ARRAY"
                   THEN [operands EXCEPT ![1] = JsonArray(<<>>)] ELSE operands
    /\ UNCHANGED <<str, i, failed, err, stack, retc, rets, retj, result, returned,
                   done, aborted, oob, char_signed, origin, cast_saturates>>

\* One call of the value API: it returns res and changes nothing else, the
\* values being const behind their handles.
ValueCall(op, args, res) ==
    /\ called' = [op |-> op, args |-> args, res |-> res]
    /\ UNCHANGED <<str, i, failed, err, stack, retc, rets, retj, result, returned,
                   done, aborted, oob, char_signed, origin, cast_saturates, operands>>

\* The calls a holder of three values makes: the comparisons and dump on the
\* first two, the accessors on the first.
NextValues ==
    \/ \E j \in 1..2, k \in 1..2 :
          ValueCall("==", <<j, k>>, JsonEq(operands[j], operands[k]))
    \/ \E j \in 1..2, k \in 1..2 :
          ValueCall("<", <<j, k>>, JsonLess(operands[j], operands[k]))
    \/ ValueCall("number_value", <<>>, number_value(operands[1]))
    \/ ValueCall("int_value", <<>>, int_value(operands[1], cast_saturates))
    \/ ValueCall("type", <<>>, operands[1].type)
    \/ ValueCall("bool_value", <<>>, bool_value(operands[1]))
    \/ ValueCall("string_value", <<>>, string_value(operands[1]))
    \/ ValueCall("array_items", <<>>, array_items(operands[1]))
    \/ ValueCall("object_items", <<>>, object_items(operands[1]))
    \/ ValueCall("size", <<>>, size(operands[1]))
    \/ \E n \in 0..2 : ValueCall("[i]", <<n>>, at_index(operands[1], n))
    \/ \E key \in {T(<<"a">>), T(<<"b">>), T(<<"c">>)} :
          ValueCall("[key]", <<key>>, at_key(operands[1], key))
    \/ \E j \in 1..2 : ValueCall("dump", <<j>>, Dump(operands[j], char_signed))

\* Three values of the table are held: three Numbers, or three values that are
\* no Numbers, Json(1) or a NaN. No parse is going on.
SpecValues ==
    /\ \E family \in {{e \in ValueTable : e[2] >= 0},
                      {e \in ValueTable : e[2] < 0 \/ e[1] = JsonInt(1)
                                          \/ e[1] = JsonDouble(DblNaN(1))}} :
          \E x \in family, y \in family, z \in family :
             /\ operands = <<x[1], y[1], z[1]>>
             /\ origin = Org("values", JsonNull, <<x[2], y[2], z[2]>>, "none")
    /\ called = [op |-> "none", args |-> <<>>, res |-> <<>>]
    /\ str = <<>> /\ i = 0 /\ failed = FALSE /\ err = <<>> /\ stack = <<>>
    /\ retc = 0 /\ rets = <<>> /\ retj = JsonNull /\ result = JsonNull
    /\ returned = JsonNull /\ done = TRUE /\ aborted = FALSE /\ oob = FALSE
    /\ char_signed = TRUE
    /\ cast_saturates \in BOOLEAN
    /\ [][NextValues]_vars

\* C16: Json(n) == Json((double)n) holds for every int n in both orders, and
\* Json(a) < Json(b) holds exactly when a < b as doubles, whichever of the two
\* is built from an int and whichever from a double.
NumbersCompareAsDoubles ==
    LET x == operands[called.args[1]]
        y == operands[called.args[2]]
        lx == origin.inner[called.args[1]]
        ly == origin.inner[called.args[2]]
    IN /\ called.op = "==" /\ x.type = "NUMBER" /\ y.type = "NUMBER"
          /\ x.rep # y.rep /\ lx = ly /\ lx > 0 => called.res
       /\ called.op = "<" /\ x.type = "NUMBER" /\ y.type = "NUMBER" =>
             (called.res <=> lx > 0 /\ ly > 0 /\ lx < ly)

\* Json(1) < Json(1.5) has been called and has returned true.
IntComparedWithDouble ==
    /\ called.op = "<" /\ called.res
       /\ operands[called.args[1]] = JsonInt(1)
       /\ operands[called.args[2]] = JsonDouble(Dbl(FALSE, 15, -1))
       /\ operands[3] = JsonDouble(DblNaN(2))

RECURSIVE SameTagAndPayload(_, _)
\* a and b have one variant tag and equal payloads: Numbers equal as doubles,
\* Bools the same, Strings the same bytes, Arrays of one length with equal
\* items in order, Objects of one key set with equal values at each key.
SameTagAndPayload(a, b) ==
    /\ a.type = b.type
    /\ CASE a.type = "NUL" -> TRUE
         [] a.type = "BOOL" -> a.b = b.b
         [] a.type = "NUMBER" -> DoubleEq(number_value(a), number_value(b))
         [] a.type = "STRING" -> a.s = b.s
         [] a.type = "ARRAY" ->
              /\ Len(a.items) = Len(b.items)
              /\ \A k \in 1..Len(a.items) : SameTagAndPayload(a.items[k], b.items[k])
         [] a.type = "OBJECT" ->
              /\ {a.members[k][1] : k \in 1..Len(a.members)}
                    = {b.members[k][1] : k \in 1..Len(b.members)}
              /\ \A j \in 1..Len(a.members), k \in 1..Len(b.members) :
                    a.members[j][1] = b.members[k][1] =>
                        SameTagAndPayload(a.members[j][2], b.members[k][2])

\* C17: a == b holds exactly when a and b have the same variant tag and equal
\* payloads.
EqualIffSameTagAndPayload ==
    called.op = "==" =>
        (called.res <=>
            SameTagAndPayload(operands[called.args[1]], operands[called.args[2]]))

\* The order of the claim on two values of one variant, < and == on the
\* contents being the program's: false before true, Strings by their first
\* differing byte or as prefixes, Arrays and Objects by their first differing
\* item or pair (a pair by its key, then by its value) or as prefixes.
PayloadOrdered(a, b) ==
    LET lexLess(m, n, differs(_), less(_)) ==
            IF \E k \in 1..(IF m < n THEN m ELSE n) : differs(k)
            THEN less(CHOOSE k \in 1..m : differs(k) /\ \A j \in 1..(k - 1) : ~differs(j))
            ELSE m < n
    IN CASE a.type = "NUL" -> FALSE
         [] a.type = "BOOL" -> ~a.b /\ b.b
         [] a.type = "NUMBER" -> DoubleLess(number_value(a), number_value(b))
         [] a.type = "STRING" ->
              LET differs(k) == a.s[k] # b.s[k]
                  less(k) == a.s[k] < b.s[k]
              IN lexLess(Len(a.s), Len(b.s), differs, less)
         [] a.type = "ARRAY" ->
              LET differs(k) == ~JsonEq(a.items[k], b.items[k])
                  less(k) == JsonLess(a.items[k], b.items[k])
              IN lexLess(Len(a.items), Len(b.items), differs, less)
         [] a.type = "OBJECT" ->
              LET differs(k) == \/ a.members[k][1] # b.members[k][1]
                                \/ ~JsonEq(a.members[k][2], b.members[k][2])
                  less(k) == \/ StrLess(a.members[k][1], b.members[k][1])
                             \/ /\ a.members[k][1] = b.members[k][1]
                                /\ JsonLess(a.members[k][2], b.members[k][2])
              IN lexLess(Len(a.members), Len(b.members), differs, less)

\* C18: of a < b, a == b and b < a exactly one holds, < is transitive, values
\* of two variants are ordered Null < Number < String < Bool < Array < Object,
\* and values of one variant by their payloads.
StrictTotalOrder ==
    called.op = "<" =>
        LET a == operands[1]
            b == operands[2]
            c == operands[3]
            rank(v) == CHOOSE k \in 1..6 :
                          <<"NUL", "NUMBER", "STRING", "BOOL", "ARRAY", "OBJECT">>[k] = v.type
            count(x, y) == Cardinality({n \in 1..3 :
                              \/ n = 1 /\ JsonLess(x, y)
                              \/ n = 2 /\ JsonEq(x, y)
                              \/ n = 3 /\ JsonLess(y, x)})
        IN /\ count(a, b) = 1
           /\ JsonLess(a, b) /\ JsonLess(b, c) => JsonLess(a, c)
           /\ a.type # b.type => (JsonLess(a, b) <=> rank(a) < rank(b))
           /\ a.type = b.type => (JsonLess(a, b) <=> PayloadOrdered(a, b))
           /\ called.res = JsonLess(operands[called.args[1]], operands[called.args[2]])

\* C19: an accessor called on a value of another variant returns its default
\* (0.0, 0, false, the empty string, no items, no members, Null, size 0), and
\* called on a value of its variant returns the payload: the double of a
\* Number, its whole part as int, the bool, the bytes, the items, the members,
\* and as size the number of bytes, items or members.
AccessorsTotal ==
    LET v == operands[1]
        is(t) == v.type = t
        level == origin.inner[1]
        whole == [k \in 2..7 |-> <<-1, 0, 0, 1, 1, 2147483647>>[k - 1]]
    IN /\ called.op = "number_value" =>
             called.res = IF ~is("NUMBER") THEN Dbl(FALSE, 0, 0)
                          ELSE IF v.rep = "int" THEN IntToDouble(v.n) ELSE v.d
       /\ called.op = "int_value" =>
             IF ~is("NUMBER") THEN called.res = 0
             ELSE level \in 2..7 /\ called.res = whole[level]
       /\ called.op = "bool_value" =>
             called.res = IF is("BOOL") THEN v.b ELSE FALSE
       /\ called.op = "string_value" =>
             called.res = IF is("STRING") THEN v.s ELSE <<>>
       /\ called.op = "array_items" =>
             called.res = IF is("ARRAY") THEN v.items ELSE <<>>
       /\ called.op = "object_items" =>
             called.res = IF is("OBJECT") THEN v.members ELSE <<>>
       /\ called.op = "[i]" /\ ~is("ARRAY") => called.res = JsonNull
       /\ called.op = "[key]" /\ ~is("OBJECT") => called.res = JsonNull
       /\ called.op = "size" =>
             called.res = CASE is("STRING") -> Len(v.s)
                            [] is("ARRAY") -> Len(v.items)
                            [] is("OBJECT") -> Len(v.members)
                            [] OTHER -> 0

\* C20: a[i] on an Array is its i-th item for i < a.size() and Null for
\* i >= a.size(); o[k] on an Object is the value at the key k, and Null when
\* o has no key k; and no lookup changes a value.
LookupOnContainers ==
    /\ [](LET v == operands[1]
              n == called.args[1]
              key == called.args[1]
              at == {k \in 1..Len(v.members) : v.members[k][1] = key}
          IN /\ called.op = "[i]" /\ v.type = "ARRAY" =>
                   called.res = IF n < Len(v.items) THEN v.items[n + 1] ELSE JsonNull
             /\ called.op = "[key]" /\ v.type = "OBJECT" =>
                   IF at = {} THEN called.res = JsonNull
                   ELSE \A k \in at : called.res = v.members[k][2])
    /\ [][called'.op \in {"[i]", "[key]"} => operands' = operands]_vars

\* a[2] has been called on an Array of two items and has returned Null.
IndexBeyondEndLookedUp ==
    /\ called.op = "[i]" /\ called.args = <<2>>
    /\ operands[1] = JsonArray(<<JsonInt(1), JsonNull>>)
    /\ called.res = JsonNull

-----------------------------------------------------------------------------
(* Json::dump called on constructed values *)

MaxDumped == 3

\* The values dump is called on: Objects built from up to MaxDumped pairs with
\* distinct keys in every order of insertion, Arrays of up to MaxDumped items,
\* and Strings of one byte, of an escaped byte between two letters, and of two
\* bytes; inner is what the value is built from. The build's char is signed or
\* unsigned.
SpecDump ==
    /\ LET a == T(<<"a">>)
           keys == {a, T(<<"b">>), T(<<"a", "b">>)}
           parts == {JsonInt(1), JsonInt(2), JsonString(a), JsonArray(<<>>),
                     JsonObject(MapOf(<<<<T(<<"b">>), JsonInt(1)>>, <<a, JsonInt(2)>>>>))}
           lists(S) == UNION {[1..n -> S] : n \in 0..MaxDumped}
           objects == {<<JsonObject(MapOf(ps)), "object", ps>> :
                          ps \in {qs \in lists(keys \X {JsonInt(1), JsonInt(2), JsonArray(<<>>)}) :
                                     \A j \in 1..Len(qs), k \in 1..Len(qs) :
                                        j # k => qs[j][1] # qs[k][1]}}
           arrays == {<<JsonArray(items), "array", items>> : items \in lists(parts)}
           bytes == {<<c>> : c \in 0..255}
                    \cup {<<Ord["a"], c, Ord["b"]>> : c \in {0, 8, 9, 10, 12, 13, 31, 34, 47, 92, 127, 128, 255}}
                    \cup {<<c, d>> : c \in {10, 31, 92}, d \in {13, 34, 200}}
           strings == {<<JsonString(t), "string", t>> : t \in bytes}
       IN \E x \in objects \cup arrays \cup strings, y \in {JsonNull, JsonInt(1)} :
             /\ operands = <<x[1], y, JsonNull>>
             /\ origin = Org(x[2], JsonNull, x[3], "none")
    /\ char_signed \in BOOLEAN
    /\ cast_saturates = FALSE
    /\ called = [op |-> "none", args |-> <<>>, res |-> <<>>]
    /\ str = <<>> /\ i = 0 /\ failed = FALSE /\ err = <<>> /\ stack = <<>>
    /\ retc = 0 /\ rets = <<>> /\ retj = JsonNull /\ result = JsonNull
    /\ returned = JsonNull /\ done = TRUE /\ aborted = FALSE /\ oob = FALSE
    /\ [][NextValues]_vars

\* C21: dump of an Object is "{", the pairs "key": value in ascending order of
\* the keys and joined by ", ", and "}", whatever the order the pairs were
\* inserted in; dump of an Array is "[", the dumps of the items in their order
\* joined by ", ", and "]"; the empty containers dump as "{}" and "[]".
ContainersDumped ==
    called.op = "dump" /\ called.args = <<1>> =>
        LET src == origin.inner
            n == Len(src)
            sep == T(<<",", " ">>)
            joined(piece(_)) ==
                LET upTo[k \in 0..n] ==
                        IF k = 0 THEN <<>>
                        ELSE upTo[k - 1] \o (IF k > 1 THEN sep ELSE <<>>) \o piece(k)
                IN upTo[n]
            item(k) == Dump(src[k], char_signed)
            \* the pair that has k - 1 pairs with smaller keys
            kth(k) == CHOOSE p \in {src[j] : j \in 1..n} :
                         Cardinality({j \in 1..n : StrLess(src[j][1], p[1])}) = k - 1
            pair(k) == Quoted(kth(k)[1]) \o T(<<":", " ">>) \o Dump(kth(k)[2], char_signed)
        IN /\ origin.kind = "array" =>
                 called.res = <<Ord["["]>> \o joined(item) \o <<Ord["]"]>>
           /\ origin.kind = "object" =>
                 called.res = <<Ord["{"]>> \o joined(pair) \o <<Ord["}"]>>

\* The Object built from the pairs ("b", 1) and ("a", 2), in that order, has
\* been dumped as {"a": 2, "b": 1}.
UnsortedObjectDumped ==
    /\ called.op = "dump" /\ called.args = <<1>>
    /\ origin.kind = "object"
    /\ origin.inner = <<<<T(<<"b">>), JsonInt(1)>>, <<T(<<"a">>), JsonInt(2)>>>>
    /\ called.res = T(<<"{", "\"", "a", "\"", ":", " ", "2", ",", " ",
                        "\"", "b", "\"", ":", " ", "1", "}">>)

\* C22: dump of a String is, between two double quotes, \" for '"', \\ for
\* '\', \b \f \n \r \t for the bytes 8, 12, 10, 13 and 9, \u00XX in uppercase
\* hex digits for every other byte below 0x20, and every other byte, '/' and
\* the bytes from 0x80 on among them, as it is.
StringsDumped ==
    called.op = "dump" /\ called.args = <<1>> /\ origin.kind = "string" =>
        LET s == origin.inner
            hex(n) == <<Ord["0"], Ord["1"], Ord["2"], Ord["3"], Ord["4"], Ord["5"],
                        Ord["6"], Ord["7"], Ord["8"], Ord["9"], Ord["A"], Ord["B"],
                        Ord["C"], Ord["D"], Ord["E"], Ord["F"]>>[n + 1]
            piece(c) ==
                CASE c = 34 -> T(<<"\\", "\"">>)
                  [] c = 92 -> T(<<"\\", "\\">>)
                  [] c = 8 -> T(<<"\\", "b">>)
                  [] c = 12 -> T(<<"\\", "f">>)
                  [] c = 10 -> T(<<"\\", "n">>)
                  [] c = 13 -> T(<<"\\", "r">>)
                  [] c = 9 -> T(<<"\\", "t">>)
                  [] c < 32 /\ c \notin {8, 9, 10, 12, 13} ->
                       T(<<"\\", "u", "0", "0">>) \o <<hex(c \div 16), hex(c % 16)>>
                  [] OTHER -> <<c>>
            upTo[k \in 0..Len(s)] == IF k = 0 THEN <<>> ELSE upTo[k - 1] \o piece(s[k])
        IN called.res = <<34>> \o upTo[Len(s)] \o <<34>>

-----------------------------------------------------------------------------
(* Handles: copies of a Json, and new Arrays and Objects that take one in *)

MaxHandles == 3

\* Besides the calls of NextValues the holder copies a handle (Json c = a),
\* builds Json::array{a, b} or builds Json::object{{"a", a}}, each giving it
\* one more handle, up to MaxHandles.
NextHandles ==
    \/ NextValues
    \/ /\ Len(operands) < MaxHandles
       /\ \E j \in 1..Len(operands) :
             \E made \in {<<"copy", operands[j]>>,
                          <<"array", JsonArray(<<operands[1], operands[j]>>)>>,
                          <<"object",
                            JsonObject(MapOf(<<<<T(<<"a">>), operands[j]>>>>))>>} :
                /\ operands' = Append(operands, made[2])
                /\ called' = [op |-> made[1], args |-> <<j>>, res |-> made[2]]
       /\ UNCHANGED <<str, i, failed, err, stack, retc, rets, retj, result,
                      returned, done, aborted, oob, char_signed, origin,
                      cast_saturates>>

\* Two values of the table are held; inner keeps them as they were built.
SpecHandles ==
    /\ \E x \in ValueTable, y \in ValueTable :
          /\ x[2] \in {-1, 0, 8}
          /\ y[1].type \in {"STRING", "ARRAY", "OBJECT"} /\ size(y[1]) # 1
          /\ operands = <<x[1], y[1]>>
          /\ origin = Org("handles", JsonNull, <<x[1], y[1]>>, "none")
    /\ char_signed = TRUE
    /\ cast_saturates \in BOOLEAN
    /\ called = [op |-> "none", args |-> <<>>, res |-> <<>>]
    /\ str = <<>> /\ i = 0 /\ failed = FALSE /\ err = <<>> /\ stack = <<>>
    /\ retc = 0 /\ rets = <<>> /\ retj = JsonNull /\ result = JsonNull
    /\ returned = JsonNull /\ done = TRUE /\ aborted = FALSE /\ oob = FALSE
    /\ [][NextHandles]_vars

\* C23 Immutability: no call of the public API, no copy of a handle and no use
\* of a value as element of a new Array or Object changes the tag or payload of
\* an existing value: the two values first held stay as they were built, every
\* step leaves every held value as it is, and every observation returns what
\* the value as built gives, whatever was called before.
ValuesImmutable ==
    /\ [](LET built == origin.inner
              observed(op, args) ==
                  CASE op = "==" -> JsonEq(built[args[1]], built[args[2]])
                    [] op = "<" -> JsonLess(built[args[1]], built[args[2]])
                    [] op = "number_value" -> number_value(built[1])
                    [] op = "int_value" -> int_value(built[1], cast_saturates)
                    [] op = "type" -> built[1].type
                    [] op = "bool_value" -> bool_value(built[1])
                    [] op = "string_value" -> string_value(built[1])
                    [] op = "array_items" -> array_items(built[1])
                    [] op = "object_items" -> object_items(built[1])
                    [] op = "size" -> size(built[1])
                    [] op = "[i]" -> at_index(built[1], args[1])
                    [] op = "[key]" -> at_key(built[1], args[1])
                    [] op = "dump" -> Dump(built[args[1]], char_signed)
                    [] op = "copy" -> built[args[1]]
                    [] op = "array" -> JsonArray(<<built[1], built[args[1]]>>)
                    [] op = "object" ->
                          JsonObject(MapOf(<<<<T(<<"a">>), built[args[1]]>>>>))
          IN /\ \A k \in 1..2 : operands[k] = built[k]
             /\ called.op # "none"
                   => called.res = observed(called.op, called.args))
    /\ [][\A k \in 1..Len(operands) : operands'[k] = operands[k]]_vars

\* A third handle holds an Array built from the two values and the first value
\* has been dumped after that.
ObservedAfterArrayBuilt ==
    /\ Len(operands) = 3 /\ operands[3].type = "ARRAY"
    /\ called.op = "dump" /\ called.args = <<1>>

\* C24 Sticky first error: once failed is set no step clears it and no step
\* changes err, so err is the message of the first fail() call whatever fail()
\* calls are made while the parse unwinds; a failed parse has a message.
FirstErrorSticks ==
    /\ [](failed => err # <<>>)
    /\ [][failed => failed' /\ err' = err]_vars

\* The parse of {"a":} is over: parse_number failed at the closing bracket and
\* parse_object, finding failed set, then called fail() with its own message.
SecondFailIgnored ==
    /\ done /\ failed /\ str = T(<<"{", "\"", "a", "\"", ":", "}">>)
    /\ err = <<"LEPT_PARSE_INVALID_VALUE">>

\* C25 After the first failure every parsing step is a no-op: while failed is
\* set and Json::parse has not returned, no step moves the cursor, no step adds
\* an element or a pair to an Array or Object under construction, and a call
\* that returns gives its neutral value (Null, the empty string, character 0).
FailedStepsAreNoOps ==
    [][failed /\ ~done /\ ~aborted =>
          /\ i' = i
          /\ \A k \in 1..Len(stack') :
                k <= Len(stack) => /\ stack'[k].items = stack[k].items
                                   /\ stack'[k].members = stack[k].members
          /\ Len(stack') < Len(stack) =>
                /\ stack[Len(stack)].fn \in {"parse_array", "parse_object",
                                             "parse_number", "parse_literal"}
                      => retj' = JsonNull
                /\ stack[Len(stack)].fn = "parse_json"
                      => retj' \in {JsonNull, JsonString(<<>>)}
                /\ stack[Len(stack)].fn = "parse_string" => rets' = <<>>
                /\ stack[Len(stack)].fn = "get_next_token" => retc' = 0]_vars

\* C26 No input aborts the parser: no assertion fails, the EXPECT at the start
\* of parse_string, parse_literal, parse_array and parse_object finds its
\* character at the cursor, inside the input, and encode_utf8 is never given a
\* code point above 0x10FFFF.
AssertionsHold ==
    /\ ~aborted
    /\ \A fn \in {"parse_string", "parse_literal", "parse_array", "parse_object"} :
          Running(St, fn, "begin") =>
             /\ i < Len(str)
             /\ ByteAt(str, i) = CASE fn = "parse_string" -> Ord["\""]
                                   [] fn = "parse_array" -> Ord["["]
                                   [] fn = "parse_object" -> Ord["{"]
                                   [] fn = "parse_literal" -> Top(St).literal[1]

\* The pair DBFF DFFF has been combined into U+10FFFF and encode_utf8 has
\* appended its bytes F4 8F BF BF.
LastCodePointEncoded ==
    /\ Running(St, "parse_string", "loop")
    /\ origin.kind = "pair" /\ origin.inner = <<56319, 57343, 0, 0>>
    /\ Top(St).out = <<244, 143, 191, 191>>
    /\ ~aborted

\* C27 Cursor bounds: at every step of the parse of any input the cursor i is
\* at most the length of the input, also after a failure inside an escape or a
\* surrogate pair and during the last whitespace skip of Json::parse, and no
\* step has read str beyond index length.
CursorInBounds ==
    /\ i <= Len(str)
    /\ ~oob

\* C28 dump respects equality: two values that operator== has found equal
\* dump to the same text.
EqualValuesDumpAlike ==
    called.op = "==" /\ called.res
       => Dump(operands[called.args[1]], char_signed)
             = Dump(operands[called.args[2]], char_signed)

-----------------------------------------------------------------------------
(* Termination *)

\* Json::parse runs on the calling thread without suspension: a step that can
\* be taken is taken. The inputs are well-formed texts with every kind of
\* value between them and malformed texts, one of which runs the cursor beyond
\* its end.
SpecLive ==
    /\ \E text \in
          {T(<<" ", "[", "-", "0", ".", "0", "e", "0", ",", "\"", "a", "\\", "n", "\"",
               "]", " ">>),
           T(<<"{", "\"", "k", "\"", ":", "t", "r", "u", "e", ",", "\"", "l", "\"", ":",
               "1", "}">>),
           T(<<"[", "0", ",", "[", "]", ",", "{", "}", "]">>),
           T(<<"[", "0", " ", "0">>),
           T(<<"{", "\"", "a", "\"", ":", "}">>),
           T(<<"{", "\"", "a", "\"", " ", "0">>),
           T(<<"\"", "\\", "u", "D", "8", "0", "0", "\\">>),
           T(<<"\"", "\\", "u", " ", "\"">>),
           T(<<"n", "u", "l">>),
           T(<<" ", "\"", "a">>),
           <<>>} :
          InitWith(text, Org("live", JsonNull, <<>>, "none"), TRUE)
    /\ [][Next]_vars
    /\ WF_vars(Next)

=============================================================================
